---- MODULE Spec2Model ----
(***************************************************************************)
(* A model of geomdl.BSpline: the Curve and Surface classes (data          *)
(* storage, evaluation, transpose and Boehm knot insertion).               *)
(*                                                                         *)
(* Floats are modelled as exact rationals <<n, d>> in lowest terms, so a   *)
(* comparison "within floating tolerance" is an exact comparison here.     *)
(* Python lists are sequences; a Python index i is position i + 1, and a   *)
(* negative index wraps as in Python.  None is the empty tuple.            *)
(***************************************************************************)
EXTENDS Integers, Sequences, FiniteSets, TLC

VARIABLES curve, c_call, surf, s_call, calls

vars == <<curve, c_call, surf, s_call, calls>>

----------------------------------------------------------------------------
(* Bounds of the model *)

\* largest degree the degree setters are given
MaxDegree == 2
\* longest control point list given to Curve.ctrlpts
MaxCtrlpts == 3
\* largest number of insertions r given to insert_knot
MaxR == 2
\* longest sequence of calls made on one object
MaxCalls == 5
\* the parameter grid i / ParamDen on which insert_knot is called
ParamDen == 2
\* longest sequence of calls made on one surface
MaxSurfaceCalls == 6
\* the parameter grid i / SampleDen on which two shapes are compared
SampleDen == 8

----------------------------------------------------------------------------
(* Exact rational arithmetic standing for Python floats *)

RECURSIVE GCD(_, _)
GCD(a, b) == IF b = 0 THEN a ELSE GCD(b, a % b)

Abs(x) == IF x < 0 THEN -x ELSE x

\* the rational n / d (d # 0) in lowest terms with a positive denominator
Rat(n, d) ==
    LET g == GCD(Abs(n), Abs(d))
        sg == IF d < 0 THEN -1 ELSE 1
    IN  <<(sg * n) \div g, (sg * d) \div g>>

\* float(c) of an integer c
Float(c) == <<c, 1>>

Zero == Float(0)
One == Float(1)

\* sums over the least common denominator and products after cancelling
\* across, which keeps the intermediate integers small
RAdd(a, b) ==
    LET g == GCD(a[2], b[2])
    IN  Rat(a[1] * (b[2] \div g) + b[1] * (a[2] \div g), (a[2] \div g) * b[2])
RSub(a, b) == RAdd(a, <<-b[1], b[2]>>)
RMul(a, b) ==
    LET g == GCD(Abs(a[1]), b[2])
        h == GCD(Abs(b[1]), a[2])
    IN  Rat((a[1] \div g) * (b[1] \div h), (a[2] \div h) * (b[2] \div g))
\* a / b; the caller has excluded b = 0 (ZeroDivisionError)
RDiv(a, b) == Rat(a[1] * b[2], a[2] * b[1])
RLt(a, b) == a[1] * b[2] < b[1] * a[2]
RLe(a, b) == a[1] * b[2] <= b[1] * a[2]

----------------------------------------------------------------------------
(* Python lists *)

None == <<>>

\* a list built in full, element by element, at the place it is written
List(s) == s \o <<>>

\* the value of the statements that follow an assignment "x = v": with S
\* written {F(x) : x \in {v}}, v is worked out first and F uses its value
The(S) == CHOOSE r \in S : TRUE

\* whether lst[i] is inside the list (otherwise IndexError)
PyIn(lst, i) == i >= -Len(lst) /\ i < Len(lst)

\* lst[i], negative indices counting from the end
PyAt(lst, i) == IF i >= 0 THEN lst[i + 1] ELSE lst[Len(lst) + i + 1]

\* lst after lst[i] = x
PySet(lst, i, x) ==
    IF i >= 0 THEN [lst EXCEPT ![i + 1] = x] ELSE [lst EXCEPT ![Len(lst) + i + 1] = x]

\* range(a, b) as a sequence
Range(a, b) == [i \in 1..(IF b > a THEN b - a ELSE 0) |-> a + i - 1]

Min(a, b) == IF a < b THEN a ELSE b

\* [f(x, y) for x, y in zip(xs, ys)] for f(x, y) = x + c * y
ZipAxpy(xs, c, ys) ==
    List([i \in 1..Min(Len(xs), Len(ys)) |-> RAdd(xs[i], RMul(c, ys[i]))])

\* [alpha * e2 + (1.0 - alpha) * e1 for e1, e2 in zip(a, b)]
ZipBlend(alpha, a, b) ==
    List([i \in 1..Min(Len(a), Len(b)) |->
            RAdd(RMul(alpha, b[i]), RMul(RSub(One, alpha), a[i]))])

----------------------------------------------------------------------------
(* geomdl.utilities: knot vectors, span search, basis functions *)

RECURSIVE SeqMin(_)
SeqMin(s) == IF Len(s) = 1 THEN s[1] ELSE Min(s[1], SeqMin(Tail(s)))

Max(a, b) == IF a > b THEN a ELSE b

RECURSIVE SeqMax(_)
SeqMax(s) == IF Len(s) = 1 THEN s[1] ELSE Max(s[1], SeqMax(Tail(s)))

\* normalize(values): the affine rescaling with min -> 0 and max -> 1;
\* values are the integers the caller passes.  Not ok when all values are
\* equal (the rescaling divides by max - min).
normalize_knot_vector(value) ==
    IF Len(value) = 0 THEN [ok |-> TRUE, val |-> value]
    ELSE LET lo == SeqMin(value)
             hi == SeqMax(value)
         IN  IF hi = lo THEN [ok |-> FALSE, val |-> <<>>]
             ELSE [ok |-> TRUE,
                   val |-> List([i \in 1..Len(value) |-> Rat(value[i] - lo, hi - lo)])]

\* is_valid(degree, values, n_ctrlpts): the length and the order
check_knot_vector(degree, kv, num_ctrlpts) ==
    /\ Len(kv) = degree + num_ctrlpts + 1
    /\ \A i \in 1..(Len(kv) - 1) : RLe(kv[i], kv[i + 1])

\* whether check_uv accepts the parameter (None is not checked)
check_uv(u) == u = None \/ (RLe(Zero, u) /\ RLe(u, One))

\* the number of occurrences of u in the knot vector
find_multiplicity(u, kv) == Cardinality({i \in 1..Len(kv) : kv[i] = u})

\* the set of (Python) indices k with kv[k] <= u < kv[k+1]
SpanCandidates(kv, u) ==
    {k \in 0..(Len(kv) - 2) : RLe(PyAt(kv, k), u) /\ RLt(u, PyAt(kv, k + 1))}

\* the (Python) indices of the non-trivial spans kv[k] < kv[k+1]
NonTrivialSpans(kv) == {k \in 0..(Len(kv) - 2) : RLt(PyAt(kv, k), PyAt(kv, k + 1))}

SetMax(S) == CHOOSE x \in S : \A y \in S : y <= x

SetMin(S) == CHOOSE x \in S : \A y \in S : x <= y

\* find_span: the index k with kv[k] <= u < kv[k+1]; u = 1.0 maps to the
\* last non-trivial span.  Not ok when there is no such span.
find_span(degree, kv, num_ctrlpts, u) ==
    LET Last(spans) == IF spans = {} THEN [ok |-> FALSE, val |-> 0]
                       ELSE [ok |-> TRUE, val |-> SetMax(spans)]
    IN  IF u = One THEN Last(NonTrivialSpans(kv)) ELSE Last(SpanCandidates(kv, u))

\* left[j] and right[j] of Algorithm A2.2
BasisLeft(kv, span, u, j) == RSub(u, PyAt(kv, span + 1 - j))
BasisRight(kv, span, u, j) == RSub(PyAt(kv, span + j), u)

\* the denominator right[r+1] + left[j-r] of pass j
BasisDen(kv, span, u, j, r) ==
    RAdd(BasisRight(kv, span, u, r + 1), BasisLeft(kv, span, u, j - r))

\* whether Algorithm A2.2 runs through: every knot it reads exists and no
\* denominator is zero
BasisOK(degree, kv, span, u) ==
    \A j \in 1..degree :
        /\ PyIn(kv, span + 1 - j)
        /\ PyIn(kv, span + j)
        /\ \A r \in 0..(j - 1) : BasisDen(kv, span, u, j, r) # Zero

\* pass j of Algorithm A2.2: from the j values N (degree j-1) to the j+1
\* values of degree j
BasisPass(N, kv, span, u, j) ==
    LET temp(r) == RDiv(N[r + 1], BasisDen(kv, span, u, j, r))
        saved(r) == IF r = 0 THEN Zero
                    ELSE RMul(BasisLeft(kv, span, u, j - r + 1), temp(r - 1))
    IN  List([i \in 1..(j + 1) |->
                IF i = j + 1 THEN saved(j)
                ELSE RAdd(saved(i - 1), RMul(BasisRight(kv, span, u, i), temp(i - 1)))])

RECURSIVE BasisUpTo(_, _, _, _)
BasisUpTo(j, kv, span, u) ==
    IF j = 0 THEN <<One>>
    ELSE The({BasisPass(N, kv, span, u, j) : N \in {BasisUpTo(j - 1, kv, span, u)}})

\* values(degree, knot_vector, span, u): the degree+1 basis values, value i
\* pairing with control point span - degree + i (Algorithm A2.2)
basis_functions(degree, kv, span, u) == BasisUpTo(degree, kv, span, u)

\* all_basis(degree, knot_vector, span, u): the table N[j][k], j <= k, of
\* the value j of degree k (Algorithm A2.2 for every degree up to the
\* curve's); N[j][degree] are the values of basis_functions
basis_functions_all(degree, kv, span, u) ==
    LET Table(byDegree) ==
            List([j \in 1..(degree + 1) |->
                    List([k \in 1..(degree + 1) |->
                            IF j <= k THEN byDegree[k][j] ELSE None])])
    IN  The({Table(values) : values \in {List([k \in 1..(degree + 1) |-> BasisUpTo(k - 1, kv, span, u)])}})

\* the table ndu of Algorithm A2.3: the basis values of every degree above
\* and on the diagonal, the knot differences right[r+1] + left[j-r] below
BasisNdu(degree, kv, span, u) ==
    LET Table(N) ==
            List([j \in 1..(degree + 1) |->
                    List([r \in 1..(degree + 1) |->
                            IF j <= r THEN N[j][r]
                            ELSE BasisDen(kv, span, u, j - 1, r - 1)])])
    IN  The({Table(values) : values \in {basis_functions_all(degree, kv, span, u)}})

RECURSIVE RSum(_)
RSum(s) == IF s = <<>> THEN Zero ELSE RAdd(s[1], RSum(Tail(s)))

\* pass k of Algorithm A2.3 for the function index r: row s2 of the array a
\* is written from row s1, d is accumulated and the rows are switched
BasisDersPass(ndu, degree, r, k, st) ==
    LET s1 == st.s1
        s2 == 1 - st.s1
        rk == r - k
        pk == degree - k
        j1 == IF rk >= -1 THEN 1 ELSE -rk
        j2 == IF r - 1 <= pk THEN k - 1 ELSE degree - r
        AtHead(x) == x = 0 /\ r >= k
        AtMid(x) == x >= j1 /\ x <= j2
        AtLast(x) == x = k /\ r <= pk
        Row(prev, old) ==
            List([x \in 1..(degree + 1) |->
                    IF AtHead(x - 1) THEN RDiv(prev[1], ndu[pk + 2][rk + 1])
                    ELSE IF AtMid(x - 1)
                    THEN RDiv(RSub(prev[x], prev[x - 1]), ndu[pk + 2][rk + x])
                    ELSE IF AtLast(x - 1)
                    THEN RDiv(RSub(Zero, prev[k]), ndu[pk + 2][r + 1])
                    ELSE old[x]])
        Terms(row) ==
            List([x \in 1..(degree + 1) |->
                    IF AtHead(x - 1) THEN RMul(row[1], ndu[rk + 1][pk + 1])
                    ELSE IF AtMid(x - 1) THEN RMul(row[x], ndu[rk + x][pk + 1])
                    ELSE IF AtLast(x - 1) THEN RMul(row[k + 1], ndu[r + 1][pk + 1])
                    ELSE Zero])
        Done(row) ==
            [a |-> [st.a EXCEPT ![s2 + 1] = row], s1 |-> s2,
             d |-> Append(st.d, RSum(Terms(row)))]
    IN  The({Done(filled) : filled \in {Row(st.a[s1 + 1], st.a[s2 + 1])}})

RECURSIVE BasisDersPasses(_, _, _, _, _, _)
BasisDersPasses(ndu, degree, order, r, k, st) ==
    IF k > order THEN st
    ELSE The({BasisDersPasses(ndu, degree, order, r, k + 1, next) :
              next \in {BasisDersPass(ndu, degree, r, k, st)}})

\* the loop over the function index r: a[0][0] = 1.0 and s1 = 0 at the
\* start of each r, the rest of the array a as the previous r left it;
\* ds[r + 1][k] is d of pass k
RECURSIVE BasisDersColumns(_, _, _, _, _, _)
BasisDersColumns(ndu, degree, order, r, a, ds) ==
    IF r > degree THEN ds
    ELSE The({BasisDersColumns(ndu, degree, order, r + 1, st.a,
                                           Append(ds, st.d)) :
              st \in {BasisDersPasses(ndu, degree, order, r, 1,
                              [a |-> [a EXCEPT ![1][1] = One], s1 |-> 0, d |-> <<>>])}})

\* degree * (degree - 1) * ... * (degree - k + 1)
RECURSIVE BasisDersFactor(_, _)
BasisDersFactor(degree, k) ==
    IF k = 0 THEN 1 ELSE BasisDersFactor(degree, k - 1) * (degree - k + 1)

\* derivatives(degree, knot_vector, span, u, order): ders[k][j], the k-th
\* derivative of basis function j (Algorithm A2.3), k = 0..order
basis_functions_ders(degree, kv, span, u, order) ==
    LET Scale(ndu, ds) ==
            List([k \in 1..(order + 1) |->
                    List([j \in 1..(degree + 1) |->
                            IF k = 1 THEN ndu[j][degree + 1]
                            ELSE RMul(ds[j][k - 1],
                                      Float(BasisDersFactor(degree, k - 1)))])])
        Derive(ndu) ==
            The({Scale(ndu, ds) :
                 ds \in {BasisDersColumns(ndu, degree, order, 0,
                                  <<[x \in 1..(degree + 1) |-> None],
                                    [x \in 1..(degree + 1) |-> None]>>, <<>>)}})
    IN  The({Derive(table) : table \in {BasisNdu(degree, kv, span, u)}})

\* frange(0, 1, delta): 0, delta, 2 delta, ...: floor(1/delta) + 1 values
frange(delta) ==
    List([i \in 1..((delta[2] \div delta[1]) + 1) |-> RMul(Float(i - 1), delta)])

----------------------------------------------------------------------------
(* class Curve (and Curve2D, which only overrides the dimension) *)

\* Curve.__init__ / Curve2D.__init__
NewCurve(dim) ==
    [degree |-> 0, knot_vector |-> <<>>, control_points |-> <<>>,
     delta |-> Rat(1, 10), curve_points |-> <<>>, dimension |-> dim]

\* Surface.__init__
NewSurface ==
    [degree_u |-> 0, degree_v |-> 0, knot_vector_u |-> <<>>, knot_vector_v |-> <<>>,
     control_points |-> <<>>, control_points2D |-> <<>>,
     control_points_size_u |-> 0, control_points_size_v |-> 0,
     delta |-> Rat(1, 10), surface_points |-> <<>>, dimension |-> 3]

\* what a call left behind for its caller: its arguments (u holds the value
\* handed to a scalar or knot vector setter), the exception it raised (if
\* any), the number of warnings it issued and its return value (None unless
\* the call is a getter)
Outcome(op, u, v, r, raised, warned, ret) ==
    [op |-> op, u |-> u, v |-> v, r |-> r, raised |-> raised, warned |-> warned,
     ret |-> ret]

NoCall == Outcome("init", None, None, 0, FALSE, 0, None)

\* Curve._reset_curve
reset_curve(c) == [c EXCEPT !.curve_points = <<>>]

\* Curve._reset_ctrlpts
reset_ctrlpts(c) == [c EXCEPT !.control_points = <<>>]

\* Curve._check_variables: TRUE when it raises nothing
check_variables(c) ==
    /\ c.degree # 0
    /\ c.control_points # <<>>
    /\ c.knot_vector # <<>>

\* the point list [0.0 for x in range(dimension)]
ZeroPoint(dim) == [x \in 1..dim |-> Zero]

\* an evaluation that pairs basis value i with control point span - p + i + 1
curvept_shifted(c, u) ==
    LET P == c.control_points
        p == c.degree
        Sum(span, basis) ==
            LET cpt[i \in 0..(p + 1)] ==
                    IF i = 0 THEN ZeroPoint(c.dimension)
                    ELSE The({ZipAxpy(sum, basis[i], PyAt(P, span - p + i)) :
                              sum \in {cpt[i - 1]}})
            IN  [ok |-> TRUE, val |-> cpt[p + 1]]
        At(sp) ==
            IF /\ sp.ok
               /\ BasisOK(p, c.knot_vector, sp.val, u)
               /\ \A i \in 1..(p + 1) : PyIn(P, sp.val - p + i)
            THEN The({Sum(sp.val, basis) :
                      basis \in {basis_functions(p, c.knot_vector, sp.val, u)}})
            ELSE [ok |-> FALSE, val |-> <<>>]
    IN  The({At(found) : found \in {find_span(p, c.knot_vector, Len(P), u)}})

\* Curve.curvept with check_vars=False (Algorithm A3.1): ok is FALSE when the
\* evaluation raises (no span, a knot or control point index out of range, a
\* zero denominator, a control point that is None)
curvept_unchecked(c, u) ==
    LET P == c.control_points
        p == c.degree
        Sum(span, basis) ==
            LET cpt[i \in 0..(p + 1)] ==
                    IF i = 0 THEN ZeroPoint(c.dimension)
                    ELSE The({ZipAxpy(sum, basis[i], PyAt(P, span - p + i - 1)) :
                              sum \in {cpt[i - 1]}})
            IN  [ok |-> TRUE, val |-> cpt[p + 1]]
        At(sp) ==
            IF /\ sp.ok
               /\ BasisOK(p, c.knot_vector, sp.val, u)
               /\ \A i \in 0..p : PyIn(P, sp.val - p + i) /\ PyAt(P, sp.val - p + i) # None
            THEN The({Sum(sp.val, basis) :
                      basis \in {basis_functions(p, c.knot_vector, sp.val, u)}})
            ELSE [ok |-> FALSE, val |-> <<>>]
    IN  The({At(found) : found \in {find_span(p, c.knot_vector, Len(P), u)}})

\* Curve.curvept(u): the checks, then the evaluation
curvept(c, u) ==
    IF check_variables(c) /\ check_uv(u) THEN curvept_unchecked(c, u)
    ELSE [ok |-> FALSE, val |-> <<>>]

\* Curve.evaluate: the points are appended one by one, so an evaluation that
\* raises leaves the points computed before it in curve_points
evaluate(c) ==
    IF ~check_variables(c) THEN [raised |-> TRUE, c |-> c]
    ELSE LET Keep(pts, bad) ==
                 [raised |-> bad # {},
                  c |-> [c EXCEPT !.curve_points =
                           [i \in 1..(IF bad = {} THEN Len(pts) ELSE SetMin(bad) - 1) |->
                               pts[i].val]]]
             Check(pts) == Keep(pts, {i \in 1..Len(pts) : ~pts[i].ok})
             Sample(us) == Check(List([i \in 1..Len(us) |-> curvept_unchecked(c, us[i])]))
         IN  The({Sample(params) : params \in {frange(c.delta)}})

\* Curve.degree setter
set_degree(c, value) ==
    IF value < 0 THEN [raised |-> TRUE, c |-> c]
    ELSE [raised |-> FALSE, c |-> [reset_curve(c) EXCEPT !.degree = value]]

\* Curve.ctrlpts setter: the lists are reset, then the points are converted
\* and appended one by one up to the first one that is too long
set_ctrlpts(c, value) ==
    IF Len(value) < c.degree + 1 THEN [raised |-> TRUE, c |-> c]
    ELSE LET bad == {i \in 1..Len(value) : Len(value[i]) > c.dimension}
             n == IF bad = {} THEN Len(value)
                  ELSE (CHOOSE i \in bad : \A j \in bad : i <= j) - 1
             pts == List([i \in 1..n |->
                            List([x \in 1..Len(value[i]) |-> Float(value[i][x])])])
         IN  [raised |-> bad # {},
              c |-> [reset_ctrlpts(reset_curve(c)) EXCEPT !.control_points = pts]]

\* Curve.knotvector setter
set_knotvector(c, value) ==
    IF c.degree = 0 \/ Len(c.control_points) = 0 THEN [raised |-> TRUE, c |-> c]
    ELSE LET value_normalized == normalize_knot_vector(value)
         IN  IF ~value_normalized.ok THEN [raised |-> TRUE, c |-> c]
             ELSE IF ~check_knot_vector(c.degree, value_normalized.val, Len(c.control_points))
             THEN [raised |-> TRUE, c |-> c]
             ELSE [raised |-> FALSE,
                   c |-> [reset_curve(c) EXCEPT !.knot_vector = value_normalized.val]]

\* a delta setter that lets the value 1 through
set_delta_closed(c, value) ==
    IF RLe(value, Zero) \/ RLt(One, value) THEN [raised |-> TRUE, c |-> c]
    ELSE [raised |-> FALSE, c |-> [reset_curve(c) EXCEPT !.delta = value]]

\* Curve.delta setter
set_delta(c, value) ==
    IF RLe(value, Zero) \/ RLe(One, value) THEN [raised |-> TRUE, c |-> c]
    ELSE [raised |-> FALSE, c |-> [reset_curve(c) EXCEPT !.delta = value]]

\* Curve.curvepts getter
get_curvepts(c) == IF c.curve_points = <<>> THEN evaluate(c) ELSE [raised |-> FALSE, c |-> c]

----------------------------------------------------------------------------
(* Derivatives of a curve (Algorithms A3.2, A3.3 and A3.4).  A result is   *)
(* [ok, val]: ok is FALSE when the call raises.                             *)

\* a derivatives2 whose entries above the degree stay as they are created,
\* [None for x in range(dimension)]
derivatives2_unfilled(c, u, order) ==
    IF ~check_variables(c) \/ RLt(u, Zero) \/ RLt(One, u)
    THEN [ok |-> FALSE, val |-> <<>>]
    ELSE LET P == c.control_points
             p == c.degree
             du == Min(p, order)
             Sum(span, ders, k) ==
                 LET CKk[j \in 0..(p + 1)] ==
                         IF j = 0 THEN ZeroPoint(c.dimension)
                         ELSE The({ZipAxpy(drv, ders[k + 1][j],
                                                        PyAt(P, span - p + j - 1)) :
                                   drv \in {CKk[j - 1]}})
                 IN  CKk[p + 1]
             Fill(span, ders) ==
                 [ok |-> TRUE,
                  val |-> List([k \in 1..(order + 1) |->
                                  IF k - 1 <= du THEN Sum(span, ders, k - 1)
                                  ELSE [x \in 1..c.dimension |-> None]])]
             At(sp) ==
                 IF /\ sp.ok
                    /\ BasisOK(p, c.knot_vector, sp.val, u)
                    /\ \A j \in 0..p : PyIn(P, sp.val - p + j)
                 THEN The({Fill(sp.val, bfunsders) :
                           bfunsders \in {basis_functions_ders(p, c.knot_vector, sp.val, u, du)}})
                 ELSE [ok |-> FALSE, val |-> <<>>]
         IN  The({At(found) : found \in {find_span(p, c.knot_vector, Len(P), u)}})

\* Curve.derivatives2 (Algorithm A3.2): the basis derivatives against the
\* control points of the span, for k <= min(degree, order); zero vectors
\* for degree < k <= order
derivatives2(c, u, order) ==
    IF ~check_variables(c) \/ RLt(u, Zero) \/ RLt(One, u)
    THEN [ok |-> FALSE, val |-> <<>>]
    ELSE LET P == c.control_points
             p == c.degree
             du == Min(p, order)
             Sum(span, ders, k) ==
                 LET CKk[j \in 0..(p + 1)] ==
                         IF j = 0 THEN ZeroPoint(c.dimension)
                         ELSE The({ZipAxpy(drv, ders[k + 1][j],
                                                        PyAt(P, span - p + j - 1)) :
                                   drv \in {CKk[j - 1]}})
                 IN  CKk[p + 1]
             Fill(span, ders) ==
                 [ok |-> TRUE,
                  val |-> List([k \in 1..(order + 1) |->
                                  IF k - 1 <= du THEN Sum(span, ders, k - 1)
                                  ELSE ZeroPoint(c.dimension)])]
             At(sp) ==
                 IF /\ sp.ok
                    /\ BasisOK(p, c.knot_vector, sp.val, u)
                    /\ \A j \in 0..p : PyIn(P, sp.val - p + j)
                 THEN The({Fill(sp.val, bfunsders) :
                           bfunsders \in {basis_functions_ders(p, c.knot_vector, sp.val, u, du)}})
                 ELSE [ok |-> FALSE, val |-> <<>>]
         IN  The({At(found) : found \in {find_span(p, c.knot_vector, Len(P), u)}})

\* control points of the derivative curves computed with the factor
\* degree - k in place of degree - k + 1
derivatives_ctrlpts_short(c, order, r1, r2) ==
    LET P == c.control_points
        p == c.degree
        U == c.knot_vector
        r == r2 - r1
        Den(k, i) == RSub(PyAt(U, r1 + i + p + 1), PyAt(U, r1 + i + k))
        Ok == /\ \A i \in 0..r : PyIn(P, r1 + i)
              /\ \A k \in 1..order : \A i \in 0..(r - k) :
                    /\ PyIn(U, r1 + i + p + 1) /\ PyIn(U, r1 + i + k)
                    /\ Den(k, i) # Zero
        Row(k, prev) ==
            List([i \in 1..(r + 1) |->
                    IF k = 0 THEN PyAt(P, r1 + i - 1)
                    ELSE IF i - 1 <= r - k
                    THEN List([x \in 1..Min(Len(prev[i + 1]), Len(prev[i])) |->
                                 RDiv(RMul(Float(p - k), RSub(prev[i + 1][x], prev[i][x])),
                                      Den(k, i - 1))])
                    ELSE [x \in 1..c.dimension |-> None]])
        RECURSIVE Rows(_)
        Rows(k) ==
            IF k = 0 THEN <<Row(0, <<>>)>>
            ELSE The({Append(PK, Row(k, PK[k])) : PK \in {Rows(k - 1)}})
    IN  IF Ok THEN [ok |-> TRUE, val |-> Rows(order)] ELSE [ok |-> FALSE, val |-> <<>>]

\* Curve.derivatives_ctrlpts (Algorithm A3.3): PK[k][i], the control points
\* of the k-th derivative curve, filled for i <= r2 - r1 - k
derivatives_ctrlpts(c, order, r1, r2) ==
    LET P == c.control_points
        p == c.degree
        U == c.knot_vector
        r == r2 - r1
        Den(k, i) == RSub(PyAt(U, r1 + i + p + 1), PyAt(U, r1 + i + k))
        Ok == /\ \A i \in 0..r : PyIn(P, r1 + i)
              /\ \A k \in 1..order : \A i \in 0..(r - k) :
                    /\ PyIn(U, r1 + i + p + 1) /\ PyIn(U, r1 + i + k)
                    /\ Den(k, i) # Zero
        Row(k, prev) ==
            List([i \in 1..(r + 1) |->
                    IF k = 0 THEN PyAt(P, r1 + i - 1)
                    ELSE IF i - 1 <= r - k
                    THEN List([x \in 1..Min(Len(prev[i + 1]), Len(prev[i])) |->
                                 RDiv(RMul(Float(p - k + 1), RSub(prev[i + 1][x], prev[i][x])),
                                      Den(k, i - 1))])
                    ELSE [x \in 1..c.dimension |-> None]])
        RECURSIVE Rows(_)
        Rows(k) ==
            IF k = 0 THEN <<Row(0, <<>>)>>
            ELSE The({Append(PK, Row(k, PK[k])) : PK \in {Rows(k - 1)}})
    IN  IF Ok THEN [ok |-> TRUE, val |-> Rows(order)] ELSE [ok |-> FALSE, val |-> <<>>]

\* Curve.derivatives (Algorithm A3.4): the basis values of degree p - k
\* against the control points of the k-th derivative curve
derivatives(c, u, order) ==
    IF ~check_variables(c) \/ ~check_uv(u) THEN [ok |-> FALSE, val |-> <<>>]
    ELSE LET P == c.control_points
             p == c.degree
             du == Min(p, order)
             Sum(bfuns, PK, k) ==
                 LET CKk[j \in 0..(p - k + 1)] ==
                         IF j = 0 THEN ZeroPoint(c.dimension)
                         ELSE The({ZipAxpy(elem, bfuns[j][p - k + 1],
                                                         PK[k + 1][j]) :
                                   elem \in {CKk[j - 1]}})
                 IN  CKk[p - k + 1]
             Fill(bfuns, PK) ==
                 IF ~PK.ok THEN [ok |-> FALSE, val |-> <<>>]
                 ELSE [ok |-> TRUE,
                       val |-> List([k \in 1..(order + 1) |->
                                       IF k - 1 <= du THEN Sum(bfuns, PK.val, k - 1)
                                       ELSE ZeroPoint(c.dimension)])]
             Tables(span) ==
                 The({The({Fill(bfuns, PK) :
                               PK \in {derivatives_ctrlpts(c, du, span - p, span)}}) :
                      bfuns \in {basis_functions_all(p, c.knot_vector, span, u)}})
             At(sp) ==
                 IF sp.ok /\ BasisOK(p, c.knot_vector, sp.val, u)
                 THEN Tables(sp.val)
                 ELSE [ok |-> FALSE, val |-> <<>>]
         IN  The({At(found) : found \in {find_span(p, c.knot_vector, Len(P), u)}})

----------------------------------------------------------------------------
(* Knot insertion (Algorithm A5.1), as Curve.insert_knot and both branches  *)
(* of Surface.insert_knot run it on one list of control points.            *)
(* Q holds references: to a point of the old list, or to a slot of the     *)
(* local array R, whose lists the passes update in place (R[i][:] = ...);  *)
(* a slot of Q bound to R[0] in pass j therefore shows what R[0] holds     *)
(* when the last pass is over.                                             *)

Ref(at, src, idx) == [at |-> at, src |-> src, idx |-> idx]

\* the r copies of u placed one position early, before knot k
SpliceKnotsBeforeSpan(U, u, r, k) ==
    [i \in 1..(Len(U) + r) |->
        IF i - 1 < k THEN U[i] ELSE IF i - 1 < k + r THEN u ELSE U[i - r]]

\* the new knot vector: knots 0..k, r copies of u, knots k+1..
SpliceKnots(U, u, r, k) ==
    [i \in 1..(Len(U) + r) |->
        IF i - 1 <= k THEN U[i] ELSE IF i - 1 <= k + r THEN u ELSE U[i - r]]

\* alpha of pass j at position i: (u - U[L+i]) / (U[i+k+1] - U[L+i])
AlphaOK(U, p, u, k, i, j) ==
    /\ PyIn(U, k - p + j + i)
    /\ PyIn(U, i + k + 1)
    /\ PyAt(U, i + k + 1) # PyAt(U, k - p + j + i)

Alpha(U, p, u, k, i, j) ==
    RDiv(RSub(u, PyAt(U, k - p + j + i)),
         RSub(PyAt(U, i + k + 1), PyAt(U, k - p + j + i)))

\* R after "R[i] = copy.deepcopy(P[kR - p + i])" for i in 0..p-s
LoadR(P, p, s, kR) ==
    [i \in 1..(p + 1) |-> IF i - 1 <= p - s THEN PyAt(P, kR - p + i - 1) ELSE None]

\* one insertion pass over R
PassR(R, U, p, u, s, k, j) ==
    List([i \in 1..(p + 1) |->
            IF i - 1 <= p - j - s
            THEN ZipBlend(Alpha(U, p, u, k, i - 1, j), R[i], R[i + 1])
            ELSE R[i]])

RECURSIVE PassesR(_, _, _, _, _, _, _)
PassesR(R, U, p, u, s, k, j) ==
    IF j = 0 THEN R ELSE PassR(PassesR(R, U, p, u, s, k, j - 1), U, p, u, s, k, j)

\* a save of the unaltered control points that binds Q[i + r] to P[i - 1]
SavedRefsShifted(p, r, s, k, np) ==
    LET a == Range(0, k - p + 1)
        b == Range(k - s, np)
    IN  [n \in 1..Len(a) |-> Ref(a[n], "P", a[n])]
        \o [n \in 1..Len(b) |-> Ref(b[n] + r, "P", b[n] - 1)]

\* the assignments to Q in program order
SavedRefs(p, r, s, k, np) ==
    LET a == Range(0, k - p + 1)
        b == Range(k - s, np)
    IN  [n \in 1..Len(a) |-> Ref(a[n], "P", a[n])]
        \o [n \in 1..Len(b) |-> Ref(b[n] + r, "P", b[n])]

PassRefs(p, r, s, k) ==
    [n \in 1..(2 * r) |->
        LET j == (n + 1) \div 2
        IN  IF n % 2 = 1 THEN Ref(k - p + j, "R", 0)
            ELSE Ref(k + r - j - s, "R", p - j - s)]

RemainingRefs(s, k, L) ==
    LET c == Range(L + 1, k - s)
    IN  [n \in 1..Len(c) |-> Ref(c[n], "R", c[n] - L)]

RECURSIVE AssignRefs(_, _, _)
AssignRefs(Q, refs, n) ==
    IF n = 0 THEN Q
    ELSE PySet(AssignRefs(Q, refs, n - 1), refs[n].at, refs[n])

\* one control point list (of np points) through the algorithm.  kR is the
\* span the auxiliary points are loaded from and L the start of the remaining
\* points.  ok is FALSE when an index is out of range or a denominator is zero.
InsertRow(P, np, U, p, u, r, s, k, kR, L) ==
    LET Read(Q, R) ==
            [ok |-> TRUE,
             val |-> List([i \in 1..(np + r) |->
                             IF Q[i].src = "P" THEN PyAt(P, Q[i].idx)
                             ELSE IF Q[i].src = "R" THEN PyAt(R, Q[i].idx)
                             ELSE None])]
        Run(refs) ==
            IF /\ \A i \in 0..(p - s) : PyIn(P, kR - p + i)
               /\ \A j \in 1..r : \A i \in 0..(p - j - s) : AlphaOK(U, p, u, k, i, j)
               /\ \A n \in 1..Len(refs) :
                     /\ refs[n].at >= -(np + r) /\ refs[n].at < np + r
                     /\ refs[n].src = "P" => PyIn(P, refs[n].idx)
                     /\ refs[n].src = "R" => refs[n].idx >= -(p + 1) /\ refs[n].idx < p + 1
            THEN Read(AssignRefs([i \in 1..(np + r) |-> Ref(i - 1, "N", 0)],
                                 refs, Len(refs)),
                      PassesR(LoadR(P, p, s, kR), U, p, u, s, k, r))
            ELSE [ok |-> FALSE, val |-> <<>>]
    IN  Run(SavedRefs(p, r, s, k, np) \o PassRefs(p, r, s, k) \o RemainingRefs(s, k, L))

\* a rejection that issues no warning
cannot_insert_silent(c) == [raised |-> FALSE, warned |-> 0, c |-> c]

\* "warnings.warn(...); return": the curve is left as it is, one warning is
\* issued and the call returns None
cannot_insert(c) == [raised |-> FALSE, warned |-> 1, c |-> c]

\* an insert_knot that lets the multiplicity of u reach degree + 1
insert_knot_one_more(c, u, r) ==
    IF ~check_variables(c) \/ ~check_uv(u) \/ r < 0
    THEN [raised |-> TRUE, warned |-> 0, c |-> c]
    ELSE LET Again(res) == [raised |-> res.raised, warned |-> 0, c |-> res.c]
             Update(updated) ==
                 IF c.curve_points # <<>> THEN Again(evaluate(updated))
                 ELSE [raised |-> FALSE, warned |-> 0, c |-> updated]
             Store(k, row) ==
                 IF ~row.ok THEN [raised |-> TRUE, warned |-> 0, c |-> c]
                 ELSE Update([c EXCEPT
                                !.knot_vector = SpliceKnots(c.knot_vector, u, r, k),
                                !.control_points = row.val])
             Insert(s, sp) ==
                 IF ~sp.ok THEN [raised |-> TRUE, warned |-> 0, c |-> c]
                 ELSE Store(sp.val,
                            InsertRow(c.control_points, Len(c.control_points),
                                      c.knot_vector, c.degree, u, r, s,
                                      sp.val, sp.val, sp.val - c.degree + r))
             Decide(s) ==
                 IF r > c.degree - s + 1 THEN cannot_insert(c)
                 ELSE Insert(s, find_span(c.degree, c.knot_vector,
                                          Len(c.control_points), u))
         IN  Decide(find_multiplicity(u, c.knot_vector))

\* Curve.insert_knot
insert_knot(c, u, r) ==
    IF ~check_variables(c) \/ ~check_uv(u) \/ r < 0
    THEN [raised |-> TRUE, warned |-> 0, c |-> c]
    ELSE LET Again(res) == [raised |-> res.raised, warned |-> 0, c |-> res.c]
             Update(updated) ==
                 IF c.curve_points # <<>> THEN Again(evaluate(updated))
                 ELSE [raised |-> FALSE, warned |-> 0, c |-> updated]
             Store(k, row) ==
                 IF ~row.ok THEN [raised |-> TRUE, warned |-> 0, c |-> c]
                 ELSE Update([c EXCEPT
                                !.knot_vector = SpliceKnots(c.knot_vector, u, r, k),
                                !.control_points = row.val])
             Insert(s, sp) ==
                 IF ~sp.ok THEN [raised |-> TRUE, warned |-> 0, c |-> c]
                 ELSE Store(sp.val,
                            InsertRow(c.control_points, Len(c.control_points),
                                      c.knot_vector, c.degree, u, r, s,
                                      sp.val, sp.val, sp.val - c.degree + r))
             Decide(s) ==
                 IF r > c.degree - s THEN cannot_insert(c)
                 ELSE Insert(s, find_span(c.degree, c.knot_vector,
                                          Len(c.control_points), u))
         IN  Decide(find_multiplicity(u, c.knot_vector))

----------------------------------------------------------------------------
(* The inputs the callers pass *)

\* the i-th point of the lists given to the control point setters
InputPoint(i, dim) ==
    [x \in 1..dim |->
        IF x = 1 THEN 2 * i
        ELSE IF x = 2 THEN (3 * i * i + i) % 7
        ELSE IF x = 3 THEN (5 * i) % 3
        ELSE 1]

InputPoints(n, dim) == [i \in 1..n |-> InputPoint(i, dim)]

\* well-formed lists of 3D and of 2D points, and a list whose second point
\* has four coordinates
CtrlptsInputs ==
    {InputPoints(n, 3) : n \in 2..MaxCtrlpts}
        \cup {InputPoints(3, 2)}
        \cup {<<InputPoint(1, 3), InputPoint(2, 4), InputPoint(3, 3)>>}

\* the clamped uniform knot vector for degree d and n control points, as the
\* integers off, ..., off + n - d
ClampedUniform(d, n, off) ==
    [i \in 1..(n + d + 1) |->
        off + (IF i <= d + 1 THEN 0 ELSE IF i <= n THEN i - d - 1 ELSE n - d)]

\* clamped knot vectors, and one that is not non-decreasing
KnotInputs ==
    {ClampedUniform(d, n, 1) : d \in 1..MaxDegree, n \in 2..MaxCtrlpts}
        \cup {<<0, 1, 0, 1>>}

DegreeInputs == (-1)..MaxDegree

DeltaInputs == {Rat(0, 1), Rat(1, 2), Rat(1, 1)}

\* the interior parameters of the grid and the end 1.0
ParamInputs == {Rat(i, ParamDen) : i \in 1..ParamDen}

\* insert_knot's (u, r): the grid with every r, a parameter outside [0, 1]
\* and a negative r
InsertInputs ==
    (ParamInputs \X (0..MaxR))
        \cup {<<Rat(ParamDen + 1, ParamDen), 1>>, <<Rat(1, ParamDen), -1>>}

----------------------------------------------------------------------------
(* The calls on a Curve *)

CurveDone(op, u, r, res, warned) ==
    /\ calls < MaxCalls
    /\ calls' = calls + 1
    /\ curve' = res.c
    /\ c_call' = Outcome(op, u, None, r, res.raised, warned,
                         IF op = "curvepts" /\ ~res.raised THEN res.c.curve_points
                         ELSE None)
    /\ UNCHANGED <<surf, s_call>>

\* a call whose warnings the caller sees
CurveDoneWarning(op, u, r, res) == CurveDone(op, u, r, res, res.warned)

CurveSetDegree ==
    \E value \in DegreeInputs : CurveDone("degree", value, 0, set_degree(curve, value), 0)

\* Curve.order setter: self.degree = value - 1
CurveSetOrder ==
    \E value \in DegreeInputs :
        CurveDone("order", value + 1, 0, set_degree(curve, (value + 1) - 1), 0)

CurveSetCtrlpts ==
    \E value \in CtrlptsInputs : CurveDone("ctrlpts", None, 0, set_ctrlpts(curve, value), 0)

CurveSetKnotvector ==
    \E value \in KnotInputs :
        CurveDone("knotvector", value, 0, set_knotvector(curve, value), 0)

CurveSetDelta ==
    \E value \in DeltaInputs : CurveDone("delta", value, 0, set_delta(curve, value), 0)

CurveGetCurvepts == CurveDone("curvepts", None, 0, get_curvepts(curve), 0)

CurveEvaluate == CurveDone("evaluate", None, 0, evaluate(curve), 0)

CurveInsertKnot ==
    \E ur \in InsertInputs :
        CurveDoneWarning("insert_knot", ur[1], ur[2], insert_knot(curve, ur[1], ur[2]))

CurveInit ==
    /\ curve = NewCurve(3)
    /\ c_call = NoCall
    /\ surf = NewSurface
    /\ s_call = NoCall
    /\ calls = 0

CurveNext ==
    \/ CurveSetDegree
    \/ CurveSetOrder
    \/ CurveSetCtrlpts
    \/ CurveSetKnotvector
    \/ CurveSetDelta
    \/ CurveInsertKnot
    \/ CurveGetCurvepts
    \/ CurveEvaluate

CurveSpec == CurveInit /\ [][CurveNext]_vars

----------------------------------------------------------------------------
(* class Surface *)

\* Surface._reset_surface
Surface_reset_surface(s) == [s EXCEPT !.surface_points = <<>>]

\* Surface._reset_ctrlpts
Surface_reset_ctrlpts(s) ==
    IF s.control_points = <<>> THEN s
    ELSE [s EXCEPT !.control_points = <<>>, !.control_points2D = <<>>,
                   !.control_points_size_u = 0, !.control_points_size_v = 0]

\* Surface._check_variables: TRUE when it raises nothing
Surface_check_variables(s) ==
    /\ s.degree_u # 0 /\ s.degree_v # 0
    /\ s.control_points # <<>>
    /\ s.knot_vector_u # <<>> /\ s.knot_vector_v # <<>>

\* Surface.degree_u setter
set_degree_u(s, value) ==
    IF value < 0 THEN [raised |-> TRUE, s |-> s]
    ELSE [raised |-> FALSE, s |-> [Surface_reset_surface(s) EXCEPT !.degree_u = value]]

\* Surface.degree_v setter
set_degree_v(s, value) ==
    IF value < 0 THEN [raised |-> TRUE, s |-> s]
    ELSE [raised |-> FALSE, s |-> [Surface_reset_surface(s) EXCEPT !.degree_v = value]]

\* the rows of the grid that "for i ... for j ... append(ctrlpts[j + i * size_v])"
\* completes before an index leaves the list
GridRows(pts, size_u, size_v) ==
    LET full == Min(size_u, Len(pts) \div size_v)
    IN  List([i \in 1..full |->
                List([j \in 1..size_v |-> pts[(j - 1) + (i - 1) * size_v + 1]])])

\* Surface.set_ctrlpts: both caches are reset before anything is validated;
\* the grid is built row by row after the flattened list and the sizes are
\* stored, so a list that is too short leaves the rows built so far
Surface_set_ctrlpts(s, ctrlpts, size_u, size_v) ==
    LET s0 == Surface_reset_ctrlpts(Surface_reset_surface(s))
    IN  IF \/ s0.degree_u = 0 \/ s0.degree_v = 0
           \/ size_u < s0.degree_u + 1
           \/ size_v < s0.degree_v + 1
           \/ \E i \in 1..Len(ctrlpts) : Len(ctrlpts[i]) # s0.dimension
        THEN [raised |-> TRUE, s |-> s0]
        ELSE [raised |-> Len(ctrlpts) < size_u * size_v,
              s |-> [s0 EXCEPT
                       !.control_points =
                           List([i \in 1..Len(ctrlpts) |->
                                   List([x \in 1..Len(ctrlpts[i]) |-> Float(ctrlpts[i][x])])]),
                       !.control_points_size_u = size_u,
                       !.control_points_size_v = size_v,
                       !.control_points2D =
                           GridRows(List([i \in 1..Len(ctrlpts) |->
                                       List([x \in 1..Len(ctrlpts[i]) |-> Float(ctrlpts[i][x])])]),
                                    size_u, size_v)]]

\* Surface.knotvector_u setter
set_knotvector_u(s, value) ==
    IF s.degree_u = 0 \/ s.control_points_size_u = 0 THEN [raised |-> TRUE, s |-> s]
    ELSE LET value_normalized == normalize_knot_vector(value)
         IN  IF ~value_normalized.ok THEN [raised |-> TRUE, s |-> s]
             ELSE IF ~check_knot_vector(s.degree_u, value_normalized.val,
                                        s.control_points_size_u)
             THEN [raised |-> TRUE, s |-> s]
             ELSE [raised |-> FALSE,
                   s |-> [Surface_reset_surface(s) EXCEPT
                            !.knot_vector_u = value_normalized.val]]

\* Surface.knotvector_v setter
set_knotvector_v(s, value) ==
    IF s.degree_v = 0 \/ s.control_points_size_v = 0 THEN [raised |-> TRUE, s |-> s]
    ELSE LET value_normalized == normalize_knot_vector(value)
         IN  IF ~value_normalized.ok THEN [raised |-> TRUE, s |-> s]
             ELSE IF ~check_knot_vector(s.degree_v, value_normalized.val,
                                        s.control_points_size_v)
             THEN [raised |-> TRUE, s |-> s]
             ELSE [raised |-> FALSE,
                   s |-> [Surface_reset_surface(s) EXCEPT
                            !.knot_vector_v = value_normalized.val]]

\* Surface.delta setter
Surface_set_delta(s, value) ==
    IF RLe(value, Zero) \/ RLe(One, value) THEN [raised |-> TRUE, s |-> s]
    ELSE [raised |-> FALSE, s |-> [Surface_reset_surface(s) EXCEPT !.delta = value]]

\* "for dir_u in grid: for dir_v in dir_u: append(dir_v)"
Flatten(grid) ==
    LET RECURSIVE upto(_)
        upto(i) == IF i = 0 THEN <<>> ELSE upto(i - 1) \o grid[i]
    IN  upto(Len(grid))

\* a transpose that exchanges the grid, the sizes and the degrees but leaves
\* each knot vector with its old direction
transposeKeepingKnots(s) ==
    [raised |-> FALSE,
     s |-> [Surface_reset_surface(s) EXCEPT
              !.degree_u = s.degree_v,
              !.degree_v = s.degree_u,
              !.control_points_size_u = s.control_points_size_v,
              !.control_points_size_v = s.control_points_size_u,
              !.control_points2D =
                  List([v \in 1..s.control_points_size_v |->
                          List([u \in 1..s.control_points_size_u |->
                                  s.control_points2D[u][v]])])]]

\* Surface.transpose: the new grid is new[v][u] = old[u][v]; the new flattened
\* list is filled with v (up to the new size_v) in the outer loop and u in the
\* inner loop, reading new[u][v]
transpose(s) ==
    LET grid == s.control_points2D
        size_u == s.control_points_size_u
        size_v == s.control_points_size_v
        ok == \A u \in 0..(size_u - 1) : \A v \in 0..(size_v - 1) :
                 PyIn(grid, u) /\ PyIn(PyAt(grid, u), v)
        ctrlpts2D_new ==
            List([v \in 1..size_v |-> List([u \in 1..size_u |-> grid[u][v]])])
        ctrlpts_new_sizeU == size_v
        ctrlpts_new_sizeV == size_u
        ctrlpts_new ==
            List([n \in 1..(ctrlpts_new_sizeV * ctrlpts_new_sizeU) |->
                    LET v == (n - 1) \div ctrlpts_new_sizeU
                        u == (n - 1) % ctrlpts_new_sizeU
                    IN  ctrlpts2D_new[u + 1][v + 1]])
    IN  IF ~ok THEN [raised |-> TRUE, s |-> s]
        ELSE [raised |-> FALSE,
              s |-> [Surface_reset_surface(s) EXCEPT
                       !.degree_u = s.degree_v,
                       !.degree_v = s.degree_u,
                       !.knot_vector_u = s.knot_vector_v,
                       !.knot_vector_v = s.knot_vector_u,
                       !.control_points = ctrlpts_new,
                       !.control_points_size_u = ctrlpts_new_sizeU,
                       !.control_points_size_v = ctrlpts_new_sizeV,
                       !.control_points2D = ctrlpts2D_new]]

\* a surfpt that weights the columns with the basis values of the u direction
surfpt_one_basis(s, u, v) ==
    LET grid == s.control_points2D
        p == s.degree_u
        q == s.degree_v
        Sum(idx_u, span_v, basis_u, basis_v) ==
            LET temp[l \in 0..q, k \in 0..(p + 1)] ==
                    IF k = 0 THEN ZeroPoint(s.dimension)
                    ELSE ZipAxpy(temp[l, k - 1], basis_u[k],
                                 PyAt(PyAt(grid, idx_u + k - 1), span_v - q + l))
                spt[l \in 0..(q + 1)] ==
                    IF l = 0 THEN ZeroPoint(s.dimension)
                    ELSE ZipAxpy(spt[l - 1], basis_u[Min(l, p + 1)], temp[l - 1, p + 1])
            IN  [ok |-> TRUE, val |-> spt[q + 1]]
        At(sv, su) ==
            IF /\ sv.ok /\ BasisOK(q, s.knot_vector_v, sv.val, v)
               /\ su.ok /\ BasisOK(p, s.knot_vector_u, su.val, u)
               /\ \A l \in 0..q : \A k \in 0..p :
                     /\ PyIn(grid, su.val - p + k)
                     /\ PyIn(PyAt(grid, su.val - p + k), sv.val - q + l)
                     /\ PyAt(PyAt(grid, su.val - p + k), sv.val - q + l) # None
            THEN Sum(su.val - p, sv.val,
                     basis_functions(p, s.knot_vector_u, su.val, u),
                     basis_functions(q, s.knot_vector_v, sv.val, v))
            ELSE [ok |-> FALSE, val |-> <<>>]
    IN  At(find_span(q, s.knot_vector_v, s.control_points_size_v, v),
           find_span(p, s.knot_vector_u, s.control_points_size_u, u))

\* Surface.surfpt with check_vars=False (Algorithm A3.5): ok is FALSE when
\* the evaluation raises
surfpt_unchecked(s, u, v) ==
    LET grid == s.control_points2D
        p == s.degree_u
        q == s.degree_v
        Sum(idx_u, span_v, basis_u, basis_v) ==
            LET temp[l \in 0..q, k \in 0..(p + 1)] ==
                    IF k = 0 THEN ZeroPoint(s.dimension)
                    ELSE ZipAxpy(temp[l, k - 1], basis_u[k],
                                 PyAt(PyAt(grid, idx_u + k - 1), span_v - q + l))
                spt[l \in 0..(q + 1)] ==
                    IF l = 0 THEN ZeroPoint(s.dimension)
                    ELSE ZipAxpy(spt[l - 1], basis_v[l], temp[l - 1, p + 1])
            IN  [ok |-> TRUE, val |-> spt[q + 1]]
        At(sv, su) ==
            IF /\ sv.ok /\ BasisOK(q, s.knot_vector_v, sv.val, v)
               /\ su.ok /\ BasisOK(p, s.knot_vector_u, su.val, u)
               /\ \A l \in 0..q : \A k \in 0..p :
                     /\ PyIn(grid, su.val - p + k)
                     /\ PyIn(PyAt(grid, su.val - p + k), sv.val - q + l)
                     /\ PyAt(PyAt(grid, su.val - p + k), sv.val - q + l) # None
            THEN Sum(su.val - p, sv.val,
                     basis_functions(p, s.knot_vector_u, su.val, u),
                     basis_functions(q, s.knot_vector_v, sv.val, v))
            ELSE [ok |-> FALSE, val |-> <<>>]
    IN  At(find_span(q, s.knot_vector_v, s.control_points_size_v, v),
           find_span(p, s.knot_vector_u, s.control_points_size_u, u))

\* Surface.surfpt(u, v): the checks, then the evaluation
surfpt(s, u, v) ==
    IF Surface_check_variables(s) /\ check_uv(u) /\ check_uv(v)
    THEN surfpt_unchecked(s, u, v)
    ELSE [ok |-> FALSE, val |-> <<>>]

\* a derivatives that contracts every column l <= min(degree_v, order) of
\* every row, whatever k is
Surface_derivatives_full(s, u, v, order) ==
    IF ~Surface_check_variables(s) \/ ~check_uv(u) \/ ~check_uv(v)
    THEN [ok |-> FALSE, val |-> <<>>]
    ELSE LET grid == s.control_points2D
             p == s.degree_u
             q == s.degree_v
             du == Min(p, order)
             dv == Min(q, order)
             Temp(span_u, span_v, bu, k, sv) ==
                 LET tmp[r \in 0..(p + 1)] ==
                         IF r = 0 THEN ZeroPoint(s.dimension)
                         ELSE The({ZipAxpy(acc, bu[k + 1][r],
                                               PyAt(PyAt(grid, span_u - p + r - 1),
                                                    span_v - q + sv)) :
                                   acc \in {tmp[r - 1]}})
                 IN  tmp[p + 1]
             Entry(bv, temp, l) ==
                 LET elem[sv \in 0..(q + 1)] ==
                         IF sv = 0 THEN ZeroPoint(s.dimension)
                         ELSE The({ZipAxpy(acc, bv[l + 1][sv], temp[sv]) :
                                   acc \in {elem[sv - 1]}})
                 IN  elem[q + 1]
             Row(span_u, span_v, bu, bv, k) ==
                 The({List([l \in 1..(dv + 1) |->
                                  IF l - 1 <= dv THEN Entry(bv, temp, l - 1)
                                  ELSE ZeroPoint(s.dimension)]) :
                      temp \in {List([sv \in 1..(q + 1) |-> Temp(span_u, span_v, bu, k, sv - 1)])}})
             Fill(span_u, span_v, bu, bv) ==
                 [ok |-> TRUE,
                  val |-> List([k \in 1..(du + 1) |-> Row(span_u, span_v, bu, bv, k - 1)])]
             Tables(span_u, span_v) ==
                 The({The({Fill(span_u, span_v, bfunsders_u, bfunsders_v) :
                               bfunsders_v \in {basis_functions_ders(q, s.knot_vector_v, span_v, v, dv)}}) :
                      bfunsders_u \in {basis_functions_ders(p, s.knot_vector_u, span_u, u, du)}})
             At(su, sv) ==
                 IF /\ su.ok /\ BasisOK(p, s.knot_vector_u, su.val, u)
                    /\ sv.ok /\ BasisOK(q, s.knot_vector_v, sv.val, v)
                    /\ \A r \in 0..p : \A l \in 0..q :
                          /\ PyIn(grid, su.val - p + r)
                          /\ PyIn(PyAt(grid, su.val - p + r), sv.val - q + l)
                 THEN Tables(su.val, sv.val)
                 ELSE [ok |-> FALSE, val |-> <<>>]
         IN  The({The({At(su, sv) :
                           sv \in {find_span(q, s.knot_vector_v, s.control_points_size_v, v)}}) :
                  su \in {find_span(p, s.knot_vector_u, s.control_points_size_u, u)}})

\* Surface.derivatives (Algorithm A3.6): SKL is created full of zero
\* vectors, with min(degree_u, order) + 1 rows and min(degree_v, order) + 1
\* columns; row k is contracted for l <= min(order - k, dv)
Surface_derivatives(s, u, v, order) ==
    IF ~Surface_check_variables(s) \/ ~check_uv(u) \/ ~check_uv(v)
    THEN [ok |-> FALSE, val |-> <<>>]
    ELSE LET grid == s.control_points2D
             p == s.degree_u
             q == s.degree_v
             du == Min(p, order)
             dv == Min(q, order)
             Temp(span_u, span_v, bu, k, sv) ==
                 LET tmp[r \in 0..(p + 1)] ==
                         IF r = 0 THEN ZeroPoint(s.dimension)
                         ELSE The({ZipAxpy(acc, bu[k + 1][r],
                                               PyAt(PyAt(grid, span_u - p + r - 1),
                                                    span_v - q + sv)) :
                                   acc \in {tmp[r - 1]}})
                 IN  tmp[p + 1]
             Entry(bv, temp, l) ==
                 LET elem[sv \in 0..(q + 1)] ==
                         IF sv = 0 THEN ZeroPoint(s.dimension)
                         ELSE The({ZipAxpy(acc, bv[l + 1][sv], temp[sv]) :
                                   acc \in {elem[sv - 1]}})
                 IN  elem[q + 1]
             Row(span_u, span_v, bu, bv, k) ==
                 The({List([l \in 1..(dv + 1) |->
                                  IF l - 1 <= Min(order - k, dv) THEN Entry(bv, temp, l - 1)
                                  ELSE ZeroPoint(s.dimension)]) :
                      temp \in {List([sv \in 1..(q + 1) |-> Temp(span_u, span_v, bu, k, sv - 1)])}})
             Fill(span_u, span_v, bu, bv) ==
                 [ok |-> TRUE,
                  val |-> List([k \in 1..(du + 1) |-> Row(span_u, span_v, bu, bv, k - 1)])]
             Tables(span_u, span_v) ==
                 The({The({Fill(span_u, span_v, bfunsders_u, bfunsders_v) :
                               bfunsders_v \in {basis_functions_ders(q, s.knot_vector_v, span_v, v, dv)}}) :
                      bfunsders_u \in {basis_functions_ders(p, s.knot_vector_u, span_u, u, du)}})
             At(su, sv) ==
                 IF /\ su.ok /\ BasisOK(p, s.knot_vector_u, su.val, u)
                    /\ sv.ok /\ BasisOK(q, s.knot_vector_v, sv.val, v)
                    /\ \A r \in 0..p : \A l \in 0..q :
                          /\ PyIn(grid, su.val - p + r)
                          /\ PyIn(PyAt(grid, su.val - p + r), sv.val - q + l)
                 THEN Tables(su.val, sv.val)
                 ELSE [ok |-> FALSE, val |-> <<>>]
         IN  The({The({At(su, sv) :
                           sv \in {find_span(q, s.knot_vector_v, s.control_points_size_v, v)}}) :
                  su \in {find_span(p, s.knot_vector_u, s.control_points_size_u, u)}})

\* an evaluate with v in the outer loop and u in the inner loop
Surface_evaluate_v_outer(s) ==
    IF ~Surface_check_variables(s) THEN [raised |-> TRUE, s |-> s]
    ELSE LET Keep(pts, bad) ==
                 [raised |-> bad # {},
                  s |-> [s EXCEPT !.surface_points =
                           List([n \in 1..(IF bad = {} THEN Len(pts) ELSE SetMin(bad) - 1) |->
                                   pts[n].val])]]
             Check(pts) == Keep(pts, {n \in 1..Len(pts) : ~pts[n].ok})
             Sample(us, m) ==
                 Check(List([n \in 1..(m * m) |->
                               surfpt_unchecked(s, us[((n - 1) % m) + 1],
                                                us[((n - 1) \div m) + 1])]))
             Over(us) == Sample(us, Len(us))
         IN  Over(frange(s.delta))

\* Surface.evaluate: u in the outer loop, v in the inner loop; an evaluation
\* that raises leaves the points appended before it
Surface_evaluate(s) ==
    IF ~Surface_check_variables(s) THEN [raised |-> TRUE, s |-> s]
    ELSE LET Keep(pts, bad) ==
                 [raised |-> bad # {},
                  s |-> [s EXCEPT !.surface_points =
                           List([n \in 1..(IF bad = {} THEN Len(pts) ELSE SetMin(bad) - 1) |->
                                   pts[n].val])]]
             Check(pts) == Keep(pts, {n \in 1..Len(pts) : ~pts[n].ok})
             Sample(us, m) ==
                 Check(List([n \in 1..(m * m) |->
                               surfpt_unchecked(s, us[((n - 1) \div m) + 1],
                                                us[((n - 1) % m) + 1])]))
             Over(us) == Sample(us, Len(us))
         IN  Over(frange(s.delta))

\* Surface.surfpts getter
get_surfpts(s) ==
    IF s.surface_points = <<>> THEN Surface_evaluate(s) ELSE [raised |-> FALSE, s |-> s]

\* Python's truth value of a parameter: None and 0.0 are false
Truthy(x) == x # None /\ x # Zero

\* the points grid[0][row], grid[1][row], ... of one row index
GridColumn(grid, row) == List([i \in 1..Len(grid) |-> grid[i][row + 1]])

\* whether every grid[i][row] for row < mp can be read
RowsReach(grid, mp) == \A i \in 1..Len(grid) : Len(grid[i]) >= mp

\* the "if u:" branch of Surface.insert_knot.  can says whether
\* can_insert_knot is still True afterwards; bound says whether the locals
\* k_u and L were assigned, and k, L are their values.
InsertU(s, u, r) ==
    LET p == s.degree_u
        np == s.control_points_size_u
        mp == s.control_points_size_v
        skip == [raised |-> FALSE, warned |-> 0, can |-> TRUE, bound |-> FALSE,
                 k |-> 0, L |-> 0, s |-> s]
        Store(k_u, Q) ==
            [raised |-> FALSE, warned |-> 0, can |-> TRUE, bound |-> TRUE,
             k |-> k_u, L |-> k_u - p + r,
             s |-> [s EXCEPT
                      !.knot_vector_u = SpliceKnots(s.knot_vector_u, u, r, k_u),
                      !.control_points2D = Q,
                      !.control_points_size_u = np + r,
                      !.control_points = Flatten(Q)]]
        Gather(k_u, rows) ==
            IF \E row \in 1..mp : ~rows[row].ok THEN [skip EXCEPT !.raised = TRUE]
            ELSE Store(k_u, List([i \in 1..(np + r) |->
                                    List([row \in 1..mp |-> rows[row].val[i]])]))
        Insert(s_u, sp) ==
            IF ~sp.ok \/ ~RowsReach(s.control_points2D, mp)
            THEN [skip EXCEPT !.raised = TRUE]
            ELSE Gather(sp.val,
                        List([row \in 1..mp |->
                                InsertRow(GridColumn(s.control_points2D, row - 1), np,
                                          s.knot_vector_u, p, u, r, s_u,
                                          sp.val, sp.val, sp.val - p + r)]))
        Decide(s_u) ==
            IF r > p - s_u THEN [skip EXCEPT !.warned = 1, !.can = FALSE]
            ELSE Insert(s_u, find_span(p, s.knot_vector_u, np, u))
    IN  IF ~Truthy(u) THEN skip ELSE Decide(find_multiplicity(u, s.knot_vector_u))

\* the "if v:" branch, entered with the flag and the locals the u branch
\* left.  The auxiliary points of a column are loaded from the window of
\* k_u, which is unassigned when the u branch did not insert; the remaining
\* points start at the L of the last pass, or at the u branch's L if r = 0.
InsertV(s, v, r, ub) ==
    LET q == s.degree_v
        np == s.control_points_size_u
        mp == s.control_points_size_v
        skip == [raised |-> FALSE, warned |-> 0, s |-> s]
        Store(k_v, Q) ==
            [raised |-> FALSE, warned |-> 0,
             s |-> [s EXCEPT
                      !.knot_vector_v = SpliceKnots(s.knot_vector_v, v, r, k_v),
                      !.control_points2D = Q,
                      !.control_points_size_v = mp + r,
                      !.control_points = Flatten(Q)]]
        Gather(k_v, cols) ==
            IF \E col \in 1..np : ~cols[col].ok THEN [skip EXCEPT !.raised = TRUE]
            ELSE Store(k_v, List([col \in 1..np |-> cols[col].val]))
        Insert(s_v, sp) ==
            IF ~sp.ok \/ ~ub.bound \/ Len(s.control_points2D) < np
            THEN [skip EXCEPT !.raised = TRUE]
            ELSE Gather(sp.val,
                        List([col \in 1..np |->
                                InsertRow(PyAt(s.control_points2D, col - 1), mp,
                                          s.knot_vector_v, q, v, r, s_v, sp.val, ub.k,
                                          IF r >= 1 THEN sp.val - q + r ELSE ub.L)]))
        Decide(s_v) ==
            IF r > q - s_v THEN [skip EXCEPT !.warned = 1]
            ELSE IF ~ub.can THEN skip
            ELSE Insert(s_v, find_span(q, s.knot_vector_v, mp, v))
    IN  IF ~Truthy(v) THEN skip ELSE Decide(find_multiplicity(v, s.knot_vector_v))

\* Surface.insert_knot(u, v, r)
Surface_insert_knot(s, u, v, r) ==
    IF \/ ~Surface_check_variables(s)
       \/ (Truthy(u) \/ Truthy(v)) /\ ~(check_uv(u) /\ check_uv(v))
       \/ r < 0
    THEN [raised |-> TRUE, warned |-> 0, s |-> s]
    ELSE LET Again(warned, res) ==
                 [raised |-> res.raised, warned |-> warned, s |-> res.s]
             AfterV(ub, vb) ==
                 IF vb.raised THEN [raised |-> TRUE, warned |-> ub.warned, s |-> ub.s]
                 ELSE IF vb.s.surface_points # <<>>
                 THEN Again(ub.warned + vb.warned, Surface_evaluate(vb.s))
                 ELSE [raised |-> FALSE, warned |-> ub.warned + vb.warned, s |-> vb.s]
             AfterU(ub) ==
                 IF ub.raised THEN [raised |-> TRUE, warned |-> 0, s |-> s]
                 ELSE AfterV(ub, InsertV(ub.s, v, r, ub))
         IN  AfterU(InsertU(s, u, r))

----------------------------------------------------------------------------
(* The calls on a Surface *)

\* set_ctrlpts's (ctrlpts, size_u, size_v): a square and an oblong grid, a
\* list too short for its sizes and a list with a 2D point
GridInputs ==
    {<<InputPoints(9, 3), 3, 3>>,
     <<InputPoints(6, 3), 2, 3>>,
     <<InputPoints(4, 3), 2, 3>>,
     <<<<InputPoint(1, 3), InputPoint(2, 2), InputPoint(3, 3), InputPoint(4, 3)>>, 2, 2>>}

SurfaceDegreeInputs == {-1} \cup (1..MaxDegree)

\* insert_knot's u and v: not supplied, or an interior parameter of the grid
SurfaceParamInputs == {None} \cup {Rat(i, ParamDen) : i \in 1..(ParamDen - 1)}

\* insert_knot's (u, v, r), with a parameter outside [0, 1] and a negative r
SurfaceInsertInputs ==
    (SurfaceParamInputs \X SurfaceParamInputs \X (0..MaxR))
        \cup {<<Rat(ParamDen + 1, ParamDen), None, 1>>, <<None, Rat(1, ParamDen), -1>>}

SurfaceDone(op, u, v, r, res, warned) ==
    /\ calls < MaxSurfaceCalls
    /\ calls' = calls + 1
    /\ surf' = res.s
    /\ s_call' = Outcome(op, u, v, r, res.raised, warned,
                         IF op = "surfpts" /\ ~res.raised THEN res.s.surface_points
                         ELSE None)
    /\ UNCHANGED <<curve, c_call>>

\* a call whose warnings the caller sees
SurfaceDoneWarning(op, u, v, r, res) == SurfaceDone(op, u, v, r, res, res.warned)

SurfaceSetDegreeU ==
    \E value \in SurfaceDegreeInputs :
        SurfaceDone("degree_u", value, None, 0, set_degree_u(surf, value), 0)

SurfaceSetDegreeV ==
    \E value \in SurfaceDegreeInputs :
        SurfaceDone("degree_v", value, None, 0, set_degree_v(surf, value), 0)

SurfaceSetCtrlpts ==
    \E value \in GridInputs :
        SurfaceDone("set_ctrlpts", None, None, 0,
                    Surface_set_ctrlpts(surf, value[1], value[2], value[3]), 0)

SurfaceSetKnotvectorU ==
    \E value \in KnotInputs :
        SurfaceDone("knotvector_u", value, None, 0, set_knotvector_u(surf, value), 0)

SurfaceSetKnotvectorV ==
    \E value \in KnotInputs :
        SurfaceDone("knotvector_v", value, None, 0, set_knotvector_v(surf, value), 0)

SurfaceTranspose == SurfaceDone("transpose", None, None, 0, transpose(surf), 0)

SurfaceInsertKnot ==
    \E uvr \in SurfaceInsertInputs :
        SurfaceDoneWarning("insert_knot", uvr[1], uvr[2], uvr[3],
                           Surface_insert_knot(surf, uvr[1], uvr[2], uvr[3]))

SurfaceInit ==
    /\ surf = NewSurface
    /\ s_call = NoCall
    /\ curve = NewCurve(3)
    /\ c_call = NoCall
    /\ calls = 0

SurfaceNext ==
    \/ SurfaceSetDegreeU
    \/ SurfaceSetDegreeV
    \/ SurfaceSetCtrlpts
    \/ SurfaceSetKnotvectorU
    \/ SurfaceSetKnotvectorV
    \/ SurfaceTranspose
    \/ SurfaceInsertKnot

SurfaceSpec == SurfaceInit /\ [][SurfaceNext]_vars

----------------------------------------------------------------------------
(* A configured Surface and its cache of evaluated points *)

SurfaceSetDelta ==
    \E value \in DeltaInputs :
        SurfaceDone("delta", value, None, 0, Surface_set_delta(surf, value), 0)

SurfaceGetSurfpts == SurfaceDone("surfpts", None, None, 0, get_surfpts(surf), 0)

SurfaceEvaluate == SurfaceDone("evaluate", None, None, 0, Surface_evaluate(surf), 0)

\* the surface after degree_u, degree_v, set_ctrlpts, knotvector_u,
\* knotvector_v and delta were set in this order on a new instance
ConfiguredSurface(du, dv, grid, ku, kv, d) ==
    Surface_set_delta(
        set_knotvector_v(
            set_knotvector_u(
                Surface_set_ctrlpts(set_degree_v(set_degree_u(NewSurface, du).s, dv).s,
                                    grid[1], grid[2], grid[3]).s,
                ku).s,
            kv).s,
        d).s

\* the fully configured surfaces with one of the given deltas
ConfiguredSurfaces(deltas) ==
    {s \in {ConfiguredSurface(du, dv, grid, ku, kv, d) :
               du \in 1..MaxDegree, dv \in 1..MaxDegree, grid \in GridInputs,
               ku \in KnotInputs, kv \in KnotInputs, d \in deltas} :
        /\ Surface_check_variables(s)
        /\ s.delta \in deltas
        /\ Len(s.control_points) = s.control_points_size_u * s.control_points_size_v}

\* insert_knot's (u, v, r) on a configured surface: one knot in either or in
\* both directions
SurfaceInsertOnceInputs ==
    {<<Rat(1, 2), None, 1>>, <<None, Rat(1, 2), 1>>, <<Rat(1, 2), Rat(1, 2), 1>>}

SurfaceInsertKnotOnce ==
    \E uvr \in SurfaceInsertOnceInputs :
        SurfaceDoneWarning("insert_knot", uvr[1], uvr[2], uvr[3],
                           Surface_insert_knot(surf, uvr[1], uvr[2], uvr[3]))

\* a configured surface, before or after its points were read, on which two
\* more calls are made
SurfaceCacheInit ==
    /\ \E s \in ConfiguredSurfaces({Rat(1, 2)}) : surf \in {s, get_surfpts(s).s}
    /\ s_call = NoCall
    /\ curve = NewCurve(3)
    /\ c_call = NoCall
    /\ calls = MaxSurfaceCalls - 2

SurfaceCacheNext ==
    \/ SurfaceSetDegreeU
    \/ SurfaceSetDegreeV
    \/ SurfaceSetCtrlpts
    \/ SurfaceSetKnotvectorU
    \/ SurfaceSetKnotvectorV
    \/ SurfaceSetDelta
    \/ SurfaceGetSurfpts
    \/ SurfaceEvaluate
    \/ SurfaceTranspose
    \/ SurfaceInsertKnotOnce

SurfaceCacheSpec == SurfaceCacheInit /\ [][SurfaceCacheNext]_vars

----------------------------------------------------------------------------
(* A configured Curve or Surface and the setters of its degree, knot       *)
(* vector and delta, with the reads that fill the caches in between.       *)

\* Curve(): degree, ctrlpts, knotvector and delta assigned in this order
ConfiguredCurve(p, pts, kv, d) ==
    set_delta(set_knotvector(set_ctrlpts(set_degree(NewCurve(3), p).c, pts).c, kv).c, d).c

\* the fully configured curves with one of the given deltas
ConfiguredCurves(deltas) ==
    {c \in {ConfiguredCurve(p, pts, kv, d) :
               p \in 1..MaxDegree, pts \in CtrlptsInputs, kv \in KnotInputs,
               d \in deltas} :
        check_variables(c) /\ c.delta \in deltas}

\* either a configured curve next to a new surface or a configured surface
\* next to a new curve, with the cache empty or filled by a read; two calls
\* are left on the configured object
SetterInit ==
    /\ c_call = NoCall
    /\ s_call = NoCall
    /\ \/ /\ \E c \in ConfiguredCurves({Rat(1, 2)}) : curve \in {c, get_curvepts(c).c}
          /\ surf = NewSurface
          /\ calls = MaxCalls - 2
       \/ /\ \E s \in ConfiguredSurfaces({Rat(1, 2)}) : surf \in {s, get_surfpts(s).s}
          /\ curve = NewCurve(3)
          /\ calls = MaxSurfaceCalls - 2

SetterNext ==
    \/ CurveSetDegree
    \/ CurveSetOrder
    \/ CurveSetKnotvector
    \/ CurveSetDelta
    \/ CurveGetCurvepts
    \/ SurfaceSetDegreeU
    \/ SurfaceSetDegreeV
    \/ SurfaceSetKnotvectorU
    \/ SurfaceSetKnotvectorV
    \/ SurfaceSetDelta
    \/ SurfaceGetSurfpts

SetterSpec == SetterInit /\ [][SetterNext]_vars

----------------------------------------------------------------------------
(* What the claims speak of *)

\* the sample parameters 0, 1/SampleDen, ..., 1
Samples == {Rat(i, SampleDen) : i \in 0..SampleDen}

IsInsert(call) == call.op = "insert_knot"

\* the call returned normally and issued no warning: the insertion was made
Applied(call) == IsInsert(call) /\ ~call.raised /\ call.warned = 0

\* the call returned normally after warning that it cannot insert
Rejected(call) == IsInsert(call) /\ ~call.raised /\ call.warned > 0

NonDecreasing(kv) == \A i \in 1..(Len(kv) - 1) : RLe(kv[i], kv[i + 1])

\* first and last knot repeated degree + 1 times, at 0 and at 1
Clamped(degree, kv) ==
    /\ Len(kv) >= 2 * (degree + 1)
    /\ \A i \in 1..(degree + 1) : kv[i] = Zero /\ kv[Len(kv) + 1 - i] = One

\* a configured curve that satisfies the data model's invariants and is
\* clamped, so that [0, 1] is its parameter domain
ValidCurve(c) ==
    /\ c.degree >= 1
    /\ Len(c.control_points) >= c.degree + 1
    /\ Len(c.knot_vector) = Len(c.control_points) + c.degree + 1
    /\ NonDecreasing(c.knot_vector)
    /\ Clamped(c.degree, c.knot_vector)
    /\ \A i \in 1..Len(c.control_points) : Len(c.control_points[i]) = c.dimension

SameCurveShape(c1, c2) ==
    \A u \in Samples : curvept(c1, u).ok /\ curvept(c1, u) = curvept(c2, u)

\* C1: curve shape invariance: after a successful Curve.insert_knot(u, r)
\* with r >= 1 on a valid curve, curvept is the same as before the call at
\* every parameter, for single and for multiple insertions.
C1_CurveShapeInvariance ==
    [][(Applied(c_call') /\ c_call'.r >= 1 /\ ValidCurve(curve))
          => SameCurveShape(curve, curve')]_vars

\* the single insertion (r = 1) alone
CurveShapeInvarianceSingle ==
    [][(Applied(c_call') /\ c_call'.r = 1 /\ ValidCurve(curve))
          => SameCurveShape(curve, curve')]_vars

\* C4: knot-count invariant: whenever the knot vector of a curve is
\* non-empty its length is number of control points + degree + 1.
C4_KnotCountInvariant ==
    curve.knot_vector # <<>> =>
        Len(curve.knot_vector) = Len(curve.control_points) + curve.degree + 1

\* the number of knots of kv that are <= u, i.e. the 1-based position of
\* the last knot of the span holding u (the span's 0-based index k, plus 1)
KnotsUpTo(kv, u) == Cardinality({i \in 1..Len(kv) : RLe(kv[i], u)})

\* kv2 is kv with r copies of u placed right after the span's start
InsertedAfterSpan(kv, kv2, u, r) ==
    LET k == KnotsUpTo(kv, u)
    IN  /\ Len(kv2) = Len(kv) + r
        /\ \A i \in 1..Len(kv2) :
              kv2[i] = IF i <= k THEN kv[i]
                       ELSE IF i <= k + r THEN u
                       ELSE kv[i - r]

\* C5: after a successful Curve.insert_knot(u, r) the new knot vector is the
\* old one with exactly r copies of u placed immediately after the index k
\* of the span with knot[k] <= u < knot[k+1]; it is non-decreasing, starts
\* at 0, ends at 1, and the number of control points grew by exactly r.
C5_KnotVectorAfterInsertion ==
    [][Applied(c_call') =>
          /\ InsertedAfterSpan(curve.knot_vector, curve'.knot_vector,
                               c_call'.u, c_call'.r)
          /\ NonDecreasing(curve'.knot_vector)
          /\ curve'.knot_vector[1] = Zero
          /\ curve'.knot_vector[Len(curve'.knot_vector)] = One
          /\ Len(curve'.control_points) = Len(curve.control_points) + c_call'.r
      ]_vars

C5_Witness ==
    /\ Applied(c_call)
    /\ c_call.r = 2
    /\ Len(curve.knot_vector) = 8

----------------------------------------------------------------------------
(* Claims on Surface.insert_knot and on the control point views *)

\* a configured surface that satisfies the data model's invariants and is
\* clamped in both directions
ValidSurface(s) ==
    /\ s.degree_u >= 1 /\ s.degree_v >= 1
    /\ s.control_points_size_u >= s.degree_u + 1
    /\ s.control_points_size_v >= s.degree_v + 1
    /\ Len(s.knot_vector_u) = s.control_points_size_u + s.degree_u + 1
    /\ Len(s.knot_vector_v) = s.control_points_size_v + s.degree_v + 1
    /\ NonDecreasing(s.knot_vector_u) /\ Clamped(s.degree_u, s.knot_vector_u)
    /\ NonDecreasing(s.knot_vector_v) /\ Clamped(s.degree_v, s.knot_vector_v)
    /\ Len(s.control_points2D) = s.control_points_size_u
    /\ \A i \in 1..Len(s.control_points2D) :
          /\ Len(s.control_points2D[i]) = s.control_points_size_v
          /\ \A j \in 1..s.control_points_size_v :
                Len(s.control_points2D[i][j]) = s.dimension

SameSurfaceShape(s1, s2) ==
    \A u \in Samples : \A v \in Samples :
        surfpt(s1, u, v).ok /\ surfpt(s1, u, v) = surfpt(s2, u, v)

\* the direction is requested and r exceeds its remaining budget
OverBudgetU(s, call) ==
    Truthy(call.u) /\ call.r > s.degree_u - find_multiplicity(call.u, s.knot_vector_u)
OverBudgetV(s, call) ==
    Truthy(call.v) /\ call.r > s.degree_v - find_multiplicity(call.v, s.knot_vector_v)

\* what knot insertion works on
SurfaceData(s) ==
    <<s.knot_vector_u, s.knot_vector_v, s.control_points, s.control_points2D,
      s.control_points_size_u, s.control_points_size_v>>

\* C6: surface shape invariance in the u direction: after a successful
\* Surface.insert_knot(u = u0, r) with v not supplied and r >= 1 on a valid
\* surface, surfpt is unchanged everywhere, knot_vector_u gains exactly r
\* copies of u0, size_u grows by r, and knot_vector_v, size_v and both
\* degrees are unchanged.
C6_SurfaceShapeInvarianceU ==
    [][(/\ Applied(s_call') /\ Truthy(s_call'.u) /\ s_call'.v = None
        /\ s_call'.r >= 1 /\ ValidSurface(surf))
          => /\ SameSurfaceShape(surf, surf')
             /\ InsertedAfterSpan(surf.knot_vector_u, surf'.knot_vector_u,
                                  s_call'.u, s_call'.r)
             /\ surf'.control_points_size_u = surf.control_points_size_u + s_call'.r
             /\ surf'.knot_vector_v = surf.knot_vector_v
             /\ surf'.control_points_size_v = surf.control_points_size_v
             /\ surf'.degree_u = surf.degree_u
             /\ surf'.degree_v = surf.degree_v
      ]_vars

\* C7: surface shape invariance in the v direction: Surface.insert_knot(v =
\* v0, r) with u not supplied and 1 <= r <= degree_v - multiplicity(v0) on a
\* valid surface completes without error, adds exactly r copies of v0 to
\* knot_vector_v, grows size_v by r and leaves surfpt unchanged everywhere.
C7_SurfaceShapeInvarianceV ==
    [][(/\ IsInsert(s_call') /\ s_call'.u = None /\ Truthy(s_call'.v)
        /\ s_call'.r >= 1 /\ ~OverBudgetV(surf, s_call')
        /\ ValidSurface(surf))
          => /\ ~s_call'.raised
             /\ InsertedAfterSpan(surf.knot_vector_v, surf'.knot_vector_v,
                                  s_call'.v, s_call'.r)
             /\ surf'.control_points_size_v = surf.control_points_size_v + s_call'.r
             /\ SameSurfaceShape(surf, surf')
      ]_vars

\* the surface after insert_knot(u = u0, r = r) followed by
\* insert_knot(v = v0, r = r)
OneDirectionAtATime(s, u, v, r) ==
    Surface_insert_knot(Surface_insert_knot(s, u, None, r).s, None, v, r).s

\* C8: Surface.insert_knot(u = u0, v = v0, r) with both directions supplied
\* and r >= 1 leaves a valid surface as insert_knot(u = u0, r) followed by
\* insert_knot(v = v0, r) does, and each direction is accepted on its own
\* budget: the v insertion is made whenever r <= degree_v - multiplicity(v0),
\* even if the u insertion was rejected.
C8_BothDirectionsAreSequential ==
    [][(/\ IsInsert(s_call') /\ Truthy(s_call'.u) /\ Truthy(s_call'.v)
        /\ s_call'.r >= 1 /\ ~s_call'.raised /\ ValidSurface(surf))
          => /\ surf' = OneDirectionAtATime(surf, s_call'.u, s_call'.v, s_call'.r)
             /\ ~OverBudgetV(surf, s_call') =>
                   Len(surf'.knot_vector_v) = Len(surf.knot_vector_v) + s_call'.r
      ]_vars

\* C9: Surface.insert_knot is atomic: a call that is rejected in a requested
\* direction, or that aborts with an error, leaves the knot vectors, the
\* grid, the flattened control points and the sizes as they were.
C9_SurfaceInsertIsAtomic ==
    [][(IsInsert(s_call') /\ (s_call'.raised \/ s_call'.warned > 0))
          => SurfaceData(surf') = SurfaceData(surf)]_vars

\* the flattened view is the row-major (v fastest) listing of the grid
FlattenedIsRowMajor(s) ==
    /\ Len(s.control_points2D) = s.control_points_size_u
    /\ Len(s.control_points) = s.control_points_size_u * s.control_points_size_v
    /\ \A i \in 0..(s.control_points_size_u - 1) :
          /\ Len(s.control_points2D[i + 1]) = s.control_points_size_v
          /\ \A j \in 0..(s.control_points_size_v - 1) :
                s.control_points[i * s.control_points_size_v + j + 1]
                    = s.control_points2D[i + 1][j + 1]

\* C10: flattened/grid consistency: after every set_ctrlpts, transpose and
\* insert_knot call that returns normally, ctrlpts[i * size_v + j] equals
\* ctrlpts2d[i][j] for all 0 <= i < size_u and 0 <= j < size_v.
C10_FlattenedGridConsistency ==
    [][(s_call'.op \in {"set_ctrlpts", "transpose", "insert_knot"} /\ ~s_call'.raised)
          => FlattenedIsRowMajor(surf')]_vars

----------------------------------------------------------------------------
(* Claims on rejected insertions *)

\* r exceeds the remaining budget of u on the curve
OverBudget(c, call) == call.r > c.degree - find_multiplicity(call.u, c.knot_vector)

\* C2: rejection is a no-op: when Curve.insert_knot or Surface.insert_knot
\* is called with r greater than degree minus the current multiplicity of the
\* knot in a supplied direction and returns, the knot vector(s), the control
\* points (flattened and grid), the counts, the degree(s) and delta are what
\* they were before the call.
C2_RejectionIsNoOp ==
    [][/\ (IsInsert(c_call') /\ ~c_call'.raised /\ OverBudget(curve, c_call'))
            => /\ curve'.knot_vector = curve.knot_vector
               /\ curve'.control_points = curve.control_points
               /\ curve'.degree = curve.degree
               /\ curve'.delta = curve.delta
       /\ (/\ IsInsert(s_call') /\ ~s_call'.raised
           /\ (OverBudgetU(surf, s_call') \/ OverBudgetV(surf, s_call')))
            => /\ SurfaceData(surf') = SurfaceData(surf)
               /\ surf'.degree_u = surf.degree_u
               /\ surf'.degree_v = surf.degree_v
               /\ surf'.delta = surf.delta
      ]_vars

----------------------------------------------------------------------------
(* Claims on transpose and on the caches of evaluated points *)

\* the grid of s2 is the grid of s1 with its two indices exchanged
GridTransposed(s1, s2) ==
    /\ Len(s2.control_points2D) = s1.control_points_size_v
    /\ \A j \in 1..s1.control_points_size_v :
          /\ Len(s2.control_points2D[j]) = s1.control_points_size_u
          /\ \A i \in 1..s1.control_points_size_u :
                s2.control_points2D[j][i] = s1.control_points2D[i][j]

\* C11: Surface.transpose swaps the u and v roles consistently: the degrees,
\* the knot vectors and the sizes are exchanged, new_grid[j][i] ==
\* old_grid[i][j], the cached surface points are emptied, and surfpt(a, b) of
\* the transposed surface equals surfpt(b, a) of the original for all (a, b).
C11_TransposeSwapsRoles ==
    [][(s_call'.op = "transpose" /\ ~s_call'.raised)
          => /\ surf'.degree_u = surf.degree_v /\ surf'.degree_v = surf.degree_u
             /\ surf'.knot_vector_u = surf.knot_vector_v
             /\ surf'.knot_vector_v = surf.knot_vector_u
             /\ surf'.control_points_size_u = surf.control_points_size_v
             /\ surf'.control_points_size_v = surf.control_points_size_u
             /\ GridTransposed(surf, surf')
             /\ surf'.surface_points = <<>>
             /\ \A a \in Samples : \A b \in Samples :
                   surfpt(surf', a, b) = surfpt(surf, b, a)
      ]_vars

\* an oblong valid surface that was just transposed
C11_Witness ==
    /\ s_call.op = "transpose" /\ ~s_call.raised
    /\ ValidSurface(surf)
    /\ surf.control_points_size_u = 3 /\ surf.control_points_size_v = 2
    /\ surf.degree_u # surf.degree_v

\* the cache of a curve is empty or is the sample of its current state
CurveCacheCoherent(c) ==
    \/ c.curve_points = <<>>
    \/ ~evaluate(c).raised /\ c.curve_points = evaluate(c).c.curve_points

\* the cache of a surface is empty or is the sample of its current state
SurfaceCacheCoherent(s) ==
    \/ s.surface_points = <<>>
    \/ ~Surface_evaluate(s).raised
          /\ s.surface_points = Surface_evaluate(s).s.surface_points

\* C12: cache coherence: after any sequence of mutators and reads the cached
\* sampled points of a Curve and of a Surface are empty or equal to the
\* sample of the current degree, knot vector(s), control points and delta; a
\* read of curvepts / surfpts that returns computes the sample exactly when
\* the cache is empty and returns the sample of the current state.
C12_CacheCoherence ==
    /\ CurveCacheCoherent(curve)
    /\ SurfaceCacheCoherent(surf)
    /\ (c_call.op = "curvepts" /\ ~c_call.raised)
          => c_call.ret = evaluate(curve).c.curve_points
    /\ (s_call.op = "surfpts" /\ ~s_call.raised)
          => s_call.ret = Surface_evaluate(surf).s.surface_points

----------------------------------------------------------------------------
(* Claims on rejected assignments *)

\* C13: a rejected control point assignment leaves the instance in its last
\* valid state: when the Curve.ctrlpts setter or Surface.set_ctrlpts raises
\* an error, the stored control points, grid, sizes and cached sampled points
\* are what they were before the call.
C13_RejectedCtrlptsChangeNothing ==
    [][/\ (c_call'.op = "ctrlpts" /\ c_call'.raised)
            => /\ curve'.control_points = curve.control_points
               /\ curve'.curve_points = curve.curve_points
       /\ (s_call'.op = "set_ctrlpts" /\ s_call'.raised)
            => /\ SurfaceData(surf') = SurfaceData(surf)
               /\ surf'.surface_points = surf.surface_points
      ]_vars

\* a knot vector as handed to a setter that fails the validity check: its
\* length is not degree + number of control points + 1, or it decreases
InvalidKnots(degree, value, num_ctrlpts) ==
    \/ Len(value) # degree + num_ctrlpts + 1
    \/ \E i \in 1..(Len(value) - 1) : value[i] > value[i + 1]

\* the argument of a scalar or knot vector setter of the curve is one the
\* setter has to reject
CurveSetterRejects(c, call) ==
    \/ call.op = "degree" /\ call.u < 0
    \/ call.op = "order" /\ call.u - 1 < 0
    \/ call.op = "delta" /\ (RLe(call.u, Zero) \/ RLe(One, call.u))
    \/ call.op = "knotvector"
          /\ InvalidKnots(c.degree, call.u, Len(c.control_points))

SurfaceSetterRejects(s, call) ==
    \/ call.op \in {"degree_u", "degree_v"} /\ call.u < 0
    \/ call.op = "delta" /\ (RLe(call.u, Zero) \/ RLe(One, call.u))
    \/ call.op = "knotvector_u"
          /\ InvalidKnots(s.degree_u, call.u, s.control_points_size_u)
    \/ call.op = "knotvector_v"
          /\ InvalidKnots(s.degree_v, call.u, s.control_points_size_v)

CurveSetters == {"degree", "order", "knotvector", "delta"}

SurfaceSetters == {"degree_u", "degree_v", "knotvector_u", "knotvector_v", "delta"}

DeltaInRange(delta) == RLt(Zero, delta) /\ RLt(delta, One)

\* C14: a negative degree, a delta <= 0 or >= 1 and a knot vector of wrong
\* length or not non-decreasing make the Curve / Surface setter raise, and a
\* setter of degree, knot vector or delta that raises leaves the whole object
\* (degree, knot vector, delta, control points, cached samples) as it was;
\* 0 < delta < 1 holds in every reachable state
C14_ConfigurationErrorsChangeNothing ==
    /\ [](DeltaInRange(curve.delta) /\ DeltaInRange(surf.delta))
    /\ [][/\ (c_call'.op \in CurveSetters /\ CurveSetterRejects(curve, c_call'))
               => c_call'.raised
          /\ (c_call'.op \in CurveSetters /\ c_call'.raised) => curve' = curve
          /\ (s_call'.op \in SurfaceSetters /\ SurfaceSetterRejects(surf, s_call'))
               => s_call'.raised
          /\ (s_call'.op \in SurfaceSetters /\ s_call'.raised) => surf' = surf]_vars

\* a delta of 1 was rejected by the curve, and a knot vector that the check
\* rejects by a valid surface whose cache was filled
C14_Witness ==
    /\ c_call.op = "delta" /\ c_call.u = One /\ c_call.raised
    /\ s_call.op = "knotvector_u" /\ s_call.raised
    /\ InvalidKnots(surf.degree_u, s_call.u, surf.control_points_size_u)
    /\ ValidSurface(surf)
    /\ surf.surface_points # <<>>

\* every point of the list has dim coordinates
AllOfDimension(pts, dim) == \A i \in 1..Len(pts) : Len(pts[i]) = dim

\* C15: every stored control point has exactly `dimension` coordinates, in
\* the curve's list and in the surface's flattened list and grid, whatever was
\* assigned and after every insert_knot: a point with fewer or with more
\* coordinates is never stored
C15_DimensionInvariant ==
    /\ AllOfDimension(curve.control_points, curve.dimension)
    /\ AllOfDimension(surf.control_points, surf.dimension)
    /\ \A i \in 1..Len(surf.control_points2D) :
          AllOfDimension(surf.control_points2D[i], surf.dimension)

----------------------------------------------------------------------------
(* Evaluation of a configured curve: one call of curvept or of either      *)
(* derivative algorithm on a curve drawn from a bounded set.               *)

\* Curve() or Curve2D() with degree, ctrlpts and knotvector assigned
EvalCurve(dim, p, pts, kv) ==
    set_knotvector(set_ctrlpts(set_degree(NewCurve(dim), p).c, pts).c, kv).c

\* the 2D control points (0,0), (1,2), (3,2), (4,0)
ArchPoints == <<<<0, 0>>, <<1, 2>>, <<3, 2>>, <<4, 0>>>>

\* the knot vector [0, 0, 0, 0.5, 1, 1, 1] before normalization
ArchKnots == <<0, 0, 0, 1, 2, 2, 2>>

\* lists of 3D and 2D points, among them the four points of the arch
EvalCtrlptsInputs == CtrlptsInputs \cup {ArchPoints}

\* clamped uniform knot vectors, the arch's, a clamped one with uneven
\* interior knots and one that is not clamped
EvalKnotInputs ==
    KnotInputs \cup {ArchKnots, <<0, 0, 1, 3, 3>>, <<0, 1, 2, 3, 4>>}

\* the curves that pass _check_variables
EvalCurves ==
    {c \in {EvalCurve(dim, p, pts, kv) :
               dim \in {2, 3}, p \in 1..MaxDegree, pts \in EvalCtrlptsInputs,
               kv \in EvalKnotInputs} :
        check_variables(c)}

\* the parameters of the sample grid and one on either side of [0, 1]
EvalParamInputs ==
    Samples \cup {Rat(-1, SampleDen), Rat(SampleDen + 1, SampleDen)}

\* a call that returns a value and leaves the curve alone
CurveReturn(op, u, r, res) ==
    /\ calls < MaxCalls
    /\ calls' = calls + 1
    /\ curve' = curve
    /\ c_call' = Outcome(op, u, None, r, ~res.ok, 0, res.val)
    /\ UNCHANGED <<surf, s_call>>

CurveCurvept ==
    \E u \in EvalParamInputs : CurveReturn("curvept", u, 0, curvept(curve, u))

CurveEvalInit ==
    /\ curve \in EvalCurves
    /\ c_call = NoCall
    /\ surf = NewSurface
    /\ s_call = NoCall
    /\ calls = MaxCalls - 1

\* the orders up to one above the highest degree
OrderInputs == 0..(MaxDegree + 1)

CurveDerivatives ==
    \E u \in EvalParamInputs : \E order \in OrderInputs :
        CurveReturn("derivatives", u, order, derivatives(curve, u, order))

CurveDerivatives2 ==
    \E u \in EvalParamInputs : \E order \in OrderInputs :
        CurveReturn("derivatives2", u, order, derivatives2(curve, u, order))

CurveEvalNext ==
    \/ CurveCurvept
    \/ CurveDerivatives
    \/ CurveDerivatives2

CurveEvalSpec == CurveEvalInit /\ [][CurveEvalNext]_vars

\* the knot vector has the length the data model requires, is
\* non-decreasing and clamped: the first knot 0 and the last knot 1 occur
\* degree + 1 times each
ClampedCurve(c) ==
    /\ check_variables(c)
    /\ Len(c.knot_vector) = Len(c.control_points) + c.degree + 1
    /\ NonDecreasing(c.knot_vector)
    /\ Clamped(c.degree, c.knot_vector)
    /\ Cardinality({i \in 1..Len(c.knot_vector) : c.knot_vector[i] = Zero}) = c.degree + 1
    /\ Cardinality({i \in 1..Len(c.knot_vector) : c.knot_vector[i] = One}) = c.degree + 1

\* Curve2D with degree 2, the arch's control points and knot vector
ArchCurve == EvalCurve(2, 2, ArchPoints, ArchKnots)

\* C16: on a curve with a clamped knot vector curvept(0.0) returns the first
\* control point and curvept(1.0) the last one; on the arch of degree 2 with
\* knots [0, 0, 0, 0.5, 1, 1, 1] these are (0, 0) and (4, 0)
C16_EndpointInterpolation ==
    (c_call.op = "curvept" /\ ClampedCurve(curve)) =>
        /\ c_call.u = Zero =>
              ~c_call.raised /\ c_call.ret = curve.control_points[1]
        /\ c_call.u = One =>
              ~c_call.raised /\ c_call.ret = curve.control_points[Len(curve.control_points)]
        /\ (curve = ArchCurve /\ c_call.u = Zero) => c_call.ret = <<Float(0), Float(0)>>
        /\ (curve = ArchCurve /\ c_call.u = One) => c_call.ret = <<Float(4), Float(0)>>

\* curvept(1.0) returned (4, 0) on the arch
C16_Witness ==
    /\ c_call.op = "curvept" /\ c_call.u = One /\ ~c_call.raised
    /\ curve = ArchCurve
    /\ ClampedCurve(curve)
    /\ c_call.ret = <<Float(4), Float(0)>>

----------------------------------------------------------------------------
(* Sampling: a configured Curve or Surface, its delta, its evaluate and    *)
(* the read of its points, by the caller and by exchange.save_obj_single.  *)

\* int(x) of a non-negative float
int(x) == x[1] \div x[2]

\* the arguments save_obj_single hands to make_obj_triangles: surface.surfpts
\* and, twice, int((1.0 / surface.delta) + 1); the file it writes is left out
save_obj_single(s) ==
    LET Pass(res) ==
            [raised |-> res.raised, s |-> res.s,
             ret |-> IF res.raised THEN None
                     ELSE <<res.s.surface_points,
                            int(RAdd(RDiv(One, res.s.delta), One)),
                            int(RAdd(RDiv(One, res.s.delta), One))>>]
    IN  Pass(get_surfpts(s))

\* a call on the surface that returns a value
SurfaceReturn(op, u, v, r, res) ==
    /\ calls < MaxSurfaceCalls
    /\ calls' = calls + 1
    /\ surf' = res.s
    /\ s_call' = Outcome(op, u, v, r, res.raised, 0, res.ret)
    /\ UNCHANGED <<curve, c_call>>

SaveObjSingle == SurfaceReturn("save_obj_single", None, None, 0, save_obj_single(surf))

\* deltas that divide 1 and one that does not
SampleDeltas == {Rat(1, 2), Rat(2, 5)}

SampleInit ==
    /\ c_call = NoCall
    /\ s_call = NoCall
    /\ \/ /\ curve \in ConfiguredCurves(SampleDeltas)
          /\ surf = NewSurface
          /\ calls = MaxCalls - 2
       \/ /\ surf \in ConfiguredSurfaces(SampleDeltas)
          /\ curve = NewCurve(3)
          /\ calls = MaxSurfaceCalls - 2

SampleNext ==
    \/ CurveSetDelta
    \/ CurveEvaluate
    \/ CurveGetCurvepts
    \/ SurfaceSetDelta
    \/ SurfaceEvaluate
    \/ SurfaceGetSurfpts
    \/ SaveObjSingle

SampleSpec == SampleInit /\ [][SampleNext]_vars

\* floor(1 / delta) + 1
SampleCount(delta) == (delta[2] \div delta[1]) + 1

\* curve_points holds floor(1/delta) + 1 points, the i-th (from 0) being
\* curvept(i * delta)
CurveSampled(c) ==
    /\ Len(c.curve_points) = SampleCount(c.delta)
    /\ \A i \in 1..Len(c.curve_points) :
          c.curve_points[i] = curvept(c, RMul(Float(i - 1), c.delta)).val

\* surface_points holds (floor(1/delta) + 1)^2 points, u in the outer and v
\* in the inner loop, both over 0, delta, 2 delta, ...
SurfaceSampled(s) ==
    /\ Len(s.surface_points) = SampleCount(s.delta) * SampleCount(s.delta)
    /\ \A i \in 1..SampleCount(s.delta) : \A j \in 1..SampleCount(s.delta) :
          s.surface_points[(i - 1) * SampleCount(s.delta) + j]
              = surfpt(s, RMul(Float(i - 1), s.delta), RMul(Float(j - 1), s.delta)).val

\* the sampling a valid curve or surface holds after evaluate or after a
\* read of its points, and the sizes save_obj_single passes on
SamplingOnGrid ==
    /\ (c_call.op \in {"evaluate", "curvepts"} /\ ValidCurve(curve)) =>
          ~c_call.raised /\ CurveSampled(curve)
    /\ (s_call.op \in {"evaluate", "surfpts", "save_obj_single"} /\ ValidSurface(surf)) =>
          ~s_call.raised /\ SurfaceSampled(surf)
    /\ (s_call.op = "save_obj_single" /\ ValidSurface(surf)) =>
          /\ s_call.ret[1] = surf.surface_points
          /\ s_call.ret[2] = SampleCount(surf.delta)
          /\ s_call.ret[3] = SampleCount(surf.delta)

----------------------------------------------------------------------------
(* Claims on the derivatives of a curve *)

\* the call evaluated a valid curve at a parameter of [0, 1]
OnValidCurve(call) ==
    /\ call.op \in {"derivatives", "derivatives2"}
    /\ ValidCurve(curve)
    /\ RLe(Zero, call.u) /\ RLe(call.u, One)

----------------------------------------------------------------------------
(* Evaluation of a configured surface: one call of surfpt or derivatives. *)

\* the parameters of a grid over [0, 1] and one on either side of it
SurfaceEvalParamInputs ==
    {Rat(i, 2 * ParamDen) : i \in (-1)..(2 * ParamDen + 1)}

SurfaceSurfpt ==
    \E u \in SurfaceEvalParamInputs : \E v \in SurfaceEvalParamInputs :
        LET Returned(res) == [raised |-> ~res.ok, s |-> surf, ret |-> res.val]
        IN  SurfaceReturn("surfpt", u, v, 0, Returned(surfpt(surf, u, v)))

SurfaceDerivatives ==
    \E u \in SurfaceEvalParamInputs : \E v \in SurfaceEvalParamInputs :
        \E order \in OrderInputs :
            LET Returned(res) == [raised |-> ~res.ok, s |-> surf, ret |-> res.val]
            IN  SurfaceReturn("derivatives", u, v, order,
                              Returned(Surface_derivatives(surf, u, v, order)))

SurfaceEvalInit ==
    /\ surf \in ConfiguredSurfaces({Rat(1, 2)})
    /\ s_call = NoCall
    /\ curve = NewCurve(3)
    /\ c_call = NoCall
    /\ calls = MaxSurfaceCalls - 1

SurfaceEvalNext ==
    \/ SurfaceSurfpt
    \/ SurfaceDerivatives

SurfaceEvalSpec == SurfaceEvalInit /\ [][SurfaceEvalNext]_vars

----------------------------------------------------------------------------
(* Tangent, normal and binormal vectors of a curve and of a surface, at one *)
(* parameter and over a list of parameters.  A result is [ok, val]: ok is   *)
(* FALSE when the call raises, and val is then None.                        *)

Raises == [ok |-> FALSE, val |-> None]

Returns(val) == [ok |-> TRUE, val |-> val]

\* abs(x) of a float
RAbs(x) == <<Abs(x[1]), x[2]>>

\* vector_normalize: the vector divided by its magnitude, an error for a
\* vector of magnitude zero.  The magnitude is taken as the sum of the
\* absolute coordinates: it is zero for the same vectors, keeps the
\* direction, and keeps the coordinates rational.
vector_normalize(vec) ==
    LET Scale(magnitude) ==
            IF magnitude = Zero THEN Raises
            ELSE Returns(List([i \in 1..Len(vec) |-> RDiv(vec[i], magnitude)]))
    IN  Scale(RSum([i \in 1..Len(vec) |-> RAbs(vec[i])]))

\* vector_cross: the cross product, a 2D vector taken with z = 0
vector_cross(vector1, vector2) ==
    LET Coord(vec, i) == IF i <= Len(vec) THEN vec[i] ELSE Zero
        Minor(i, j) == RSub(RMul(Coord(vector1, i), Coord(vector2, j)),
                            RMul(Coord(vector1, j), Coord(vector2, i)))
    IN  IF vector1 = <<>> \/ vector2 = <<>> \/ Len(vector1) > 3 \/ Len(vector2) > 3
        THEN Raises
        ELSE Returns(<<Minor(2, 3), Minor(3, 1), Minor(1, 2)>>)

\* "if normalize: vec = utils.vector_normalize(vec)"
Normalized(vec, normalize) == IF normalize THEN vector_normalize(vec) ELSE Returns(vec)

\* Curve.tangent: (ders[0], ders[1]) of derivatives(u, 1)
tangent(c, u, normalize) ==
    LET Pair(point, der_u) == IF der_u.ok THEN Returns(<<point, der_u.val>>) ELSE Raises
        From(ders) ==
            IF ders.ok THEN Pair(ders.val[1], Normalized(ders.val[2], normalize))
            ELSE Raises
    IN  The({From(ders) : ders \in {derivatives(c, u, 1)}})

\* Curve.normal: (ders[0], ders[2]) of derivatives(u, 2)
normal(c, u, normalize) ==
    LET Pair(point, der_u) == IF der_u.ok THEN Returns(<<point, der_u.val>>) ELSE Raises
        From(ders) ==
            IF ders.ok THEN Pair(ders.val[1], Normalized(ders.val[3], normalize))
            ELSE Raises
    IN  The({From(ders) : ders \in {derivatives(c, u, 2)}})

\* Curve.binormal: the cross product of the tangent and the normal
binormal(c, u, normalize) ==
    LET Pair(point, vec) == IF vec.ok THEN Returns(<<point, vec.val>>) ELSE Raises
        Cross(point, binorm_vector) ==
            IF binorm_vector.ok THEN Pair(point, Normalized(binorm_vector.val, normalize))
            ELSE Raises
        From(tan_vector, norm_vector) ==
            IF tan_vector.ok /\ norm_vector.ok
            THEN Cross(tan_vector.val[1],
                       vector_cross(tan_vector.val[2], norm_vector.val[2]))
            ELSE Raises
    IN  The({From(tan_vector, norm_vector) :
             tan_vector \in {tangent(c, u, normalize)},
             norm_vector \in {normal(c, u, normalize)}})

\* an argument of a list form: is_list tells whether it is a list or a
\* tuple at all, items are its members
ListArg(items) == [is_list |-> TRUE, items |-> items]

\* an argument that is not a list (a float, a string)
NotAList == [is_list |-> FALSE, items |-> <<>>]

\* "if not u_list or not isinstance(u_list, (tuple, list)): raise ValueError"
ListRejected(u_list) == ~u_list.is_list \/ u_list.items = <<>>

\* "for u in u_list: ret_list.append(...)": ret_list is local, so the first
\* call that raises loses it
Collected(results) ==
    IF \E i \in 1..Len(results) : ~results[i].ok THEN Raises
    ELSE Returns(List([i \in 1..Len(results) |-> results[i].val]))

\* a tangents that leaves out the parameters whose evaluation raises
tangents_skipping(c, u_list, normalize) ==
    IF ListRejected(u_list) THEN Raises
    ELSE LET Kept(results) ==
                 Returns(SelectSeq(List([i \in 1..Len(results) |-> results[i].val]),
                                   LAMBDA val : val # None))
         IN  Kept(List([i \in 1..Len(u_list.items) |->
                          tangent(c, u_list.items[i], normalize)]))

\* Curve.tangents
tangents(c, u_list, normalize) ==
    IF ListRejected(u_list) THEN Raises
    ELSE Collected(List([i \in 1..Len(u_list.items) |->
                           tangent(c, u_list.items[i], normalize)]))

\* Curve.normals
normals(c, u_list, normalize) ==
    IF ListRejected(u_list) THEN Raises
    ELSE Collected(List([i \in 1..Len(u_list.items) |->
                           normal(c, u_list.items[i], normalize)]))

\* Curve.binormals
binormals(c, u_list, normalize) ==
    IF ListRejected(u_list) THEN Raises
    ELSE Collected(List([i \in 1..Len(u_list.items) |->
                           binormal(c, u_list.items[i], normalize)]))

\* Surface.tangent: (skl[0][0], skl[1][0], skl[0][1]) of derivatives(u, v, 1)
Surface_tangent(s, u, v, normalize) ==
    LET Triple(point, der_u, der_v) ==
            IF der_u.ok /\ der_v.ok THEN Returns(<<point, der_u.val, der_v.val>>)
            ELSE Raises
        From(skl) ==
            IF skl.ok /\ Len(skl.val) >= 2 /\ Len(skl.val[1]) >= 2
            THEN Triple(skl.val[1][1], Normalized(skl.val[2][1], normalize),
                        Normalized(skl.val[1][2], normalize))
            ELSE Raises
    IN  The({From(skl) : skl \in {Surface_derivatives(s, u, v, 1)}})

\* Surface.normal: check_uv, then the cross product of the two first
\* derivatives of derivatives(u, v, 1)
Surface_normal(s, u, v, normalize) ==
    LET Pair(point, vec) == IF vec.ok THEN Returns(<<point, vec.val>>) ELSE Raises
        Cross(point, vec) ==
            IF vec.ok THEN Pair(point, Normalized(vec.val, normalize)) ELSE Raises
        From(skl) ==
            IF skl.ok /\ Len(skl.val) >= 2 /\ Len(skl.val[1]) >= 2
            THEN Cross(skl.val[1][1], vector_cross(skl.val[2][1], skl.val[1][2]))
            ELSE Raises
    IN  IF ~check_uv(u) \/ ~check_uv(v) THEN Raises
        ELSE The({From(skl) : skl \in {Surface_derivatives(s, u, v, 1)}})

\* the checks of Surface.tangents and Surface.normals on their argument:
\* a list, not empty, each member a list or tuple of two values
PairsRejected(uv_list) ==
    \/ ListRejected(uv_list)
    \/ \E i \in 1..Len(uv_list.items) :
          ~uv_list.items[i].is_list \/ Len(uv_list.items[i].items) # 2

\* Surface.tangents
Surface_tangents(s, uv_list, normalize) ==
    IF PairsRejected(uv_list) THEN Raises
    ELSE Collected(List([i \in 1..Len(uv_list.items) |->
                           Surface_tangent(s, uv_list.items[i].items[1],
                                           uv_list.items[i].items[2], normalize)]))

\* Surface.normals
Surface_normals(s, uv_list, normalize) ==
    IF PairsRejected(uv_list) THEN Raises
    ELSE Collected(List([i \in 1..Len(uv_list.items) |->
                           Surface_normal(s, uv_list.items[i].items[1],
                                          uv_list.items[i].items[2], normalize)]))

----------------------------------------------------------------------------
(* One call of an evaluator, of a list form or of Curve.insert_knot on a    *)
(* configured curve or surface, with parameters inside and outside [0, 1].  *)

\* parameters below, inside and above [0, 1]
DomainParamInputs == {Rat(-1, ParamDen), Rat(1, 2 * ParamDen), Rat(ParamDen + 1, ParamDen)}

\* the arguments of the list forms of a curve: no list, the empty list and
\* the lists of one or two parameters
CurveListInputs ==
    {NotAList, ListArg(<<>>)}
        \cup {ListArg(<<u>>) : u \in DomainParamInputs}
        \cup {ListArg(<<u1, u2>>) : u1 \in DomainParamInputs, u2 \in DomainParamInputs}

\* the members of the lists given to a surface: (u, v) pairs, a member that
\* is no list and a member with one value
PairInputs ==
    {ListArg(<<u, v>>) : u \in DomainParamInputs, v \in DomainParamInputs}
        \cup {NotAList, ListArg(<<Rat(1, 2 * ParamDen)>>)}

SurfaceListInputs ==
    {NotAList, ListArg(<<>>)}
        \cup {ListArg(<<uv>>) : uv \in PairInputs}
        \cup {ListArg(<<ListArg(<<Rat(1, 2 * ParamDen), Rat(1, 2 * ParamDen)>>), uv>>) :
                 uv \in PairInputs}

CurveTangent ==
    \E u \in DomainParamInputs : \E normalize \in BOOLEAN :
        CurveReturn("tangent", u, 0, tangent(curve, u, normalize))

CurveNormal ==
    \E u \in DomainParamInputs : \E normalize \in BOOLEAN :
        CurveReturn("normal", u, 0, normal(curve, u, normalize))

CurveBinormal ==
    \E u \in DomainParamInputs : \E normalize \in BOOLEAN :
        CurveReturn("binormal", u, 0, binormal(curve, u, normalize))

CurveTangents ==
    \E u_list \in CurveListInputs : \E normalize \in BOOLEAN :
        CurveReturn("tangents", u_list, 0, tangents(curve, u_list, normalize))

CurveNormals ==
    \E u_list \in CurveListInputs : \E normalize \in BOOLEAN :
        CurveReturn("normals", u_list, 0, normals(curve, u_list, normalize))

CurveBinormals ==
    \E u_list \in CurveListInputs : \E normalize \in BOOLEAN :
        CurveReturn("binormals", u_list, 0, binormals(curve, u_list, normalize))

\* a call on the surface that returns a value and leaves the surface alone
SurfaceValue(op, u, v, r, res) ==
    /\ calls < MaxSurfaceCalls
    /\ calls' = calls + 1
    /\ surf' = surf
    /\ s_call' = Outcome(op, u, v, r, ~res.ok, 0, res.val)
    /\ UNCHANGED <<curve, c_call>>

SurfaceTangent ==
    \E u \in DomainParamInputs : \E v \in DomainParamInputs : \E normalize \in BOOLEAN :
        SurfaceValue("tangent", u, v, 0, Surface_tangent(surf, u, v, normalize))

SurfaceNormal ==
    \E u \in DomainParamInputs : \E v \in DomainParamInputs : \E normalize \in BOOLEAN :
        SurfaceValue("normal", u, v, 0, Surface_normal(surf, u, v, normalize))

SurfaceTangents ==
    \E uv_list \in SurfaceListInputs : \E normalize \in BOOLEAN :
        SurfaceValue("tangents", uv_list, None, 0,
                     Surface_tangents(surf, uv_list, normalize))

SurfaceNormals ==
    \E uv_list \in SurfaceListInputs : \E normalize \in BOOLEAN :
        SurfaceValue("normals", uv_list, None, 0,
                     Surface_normals(surf, uv_list, normalize))

DomainInit ==
    /\ c_call = NoCall
    /\ s_call = NoCall
    /\ \/ /\ curve \in EvalCurves
          /\ surf = NewSurface
          /\ calls = MaxCalls - 1
       \/ /\ surf \in ConfiguredSurfaces({Rat(1, 2)})
          /\ curve = NewCurve(3)
          /\ calls = MaxSurfaceCalls - 1

\* the caller holds a configured curve or a configured surface, and calls
\* the methods of the one it configured
DomainSurfpt == surf # NewSurface /\ SurfaceSurfpt

DomainDerivatives == surf # NewSurface /\ SurfaceDerivatives

DomainTangent == surf # NewSurface /\ SurfaceTangent

DomainNormal == surf # NewSurface /\ SurfaceNormal

DomainTangents == surf # NewSurface /\ SurfaceTangents

DomainNormals == surf # NewSurface /\ SurfaceNormals

DomainNext ==
    \/ CurveCurvept
    \/ CurveDerivatives
    \/ CurveDerivatives2
    \/ CurveTangent
    \/ CurveNormal
    \/ CurveBinormal
    \/ CurveTangents
    \/ CurveNormals
    \/ CurveBinormals
    \/ CurveInsertKnot
    \/ DomainSurfpt
    \/ DomainDerivatives
    \/ DomainTangent
    \/ DomainNormal
    \/ DomainTangents
    \/ DomainNormals

DomainSpec == DomainInit /\ [][DomainNext]_vars

\* a parameter outside [0, 1]
OutOfDomain(u) == RLt(u, Zero) \/ RLt(One, u)

CurveParamOps ==
    {"curvept", "derivatives", "derivatives2", "tangent", "normal", "binormal",
     "insert_knot"}

SurfaceParamOps == {"surfpt", "derivatives", "tangent", "normal"}

CurveListOps == {"tangents", "normals", "binormals"}

SurfaceListOps == {"tangents", "normals"}

\* no list, an empty list, or a list with a parameter outside [0, 1]
InvalidParamList(u_list) ==
    \/ ~u_list.is_list
    \/ u_list.items = <<>>
    \/ \E i \in 1..Len(u_list.items) : OutOfDomain(u_list.items[i])

\* no list, an empty list, or a list with a member that is not a (u, v)
\* pair inside [0, 1] x [0, 1]
InvalidPairList(uv_list) ==
    \/ ~uv_list.is_list
    \/ uv_list.items = <<>>
    \/ \E i \in 1..Len(uv_list.items) :
          \/ ~uv_list.items[i].is_list
          \/ Len(uv_list.items[i].items) # 2
          \/ \E x \in 1..Len(uv_list.items[i].items) :
                OutOfDomain(uv_list.items[i].items[x])

\* the call of the curve failed: an error, no value
CurveCallFailed == c_call.raised /\ c_call.ret = None

SurfaceCallFailed == s_call.raised /\ s_call.ret = None

\* C21: a call of curvept, derivatives, derivatives2, tangent, normal,
\* binormal or insert_knot on a curve, or of surfpt, derivatives, tangent or
\* normal on a surface, with u (or v) outside [0, 1] raises an error,
\* returns no value and leaves the instance as it was; tangents, normals and
\* binormals given no list, an empty list or a list with an invalid member
\* raise an error and return no list
C21_ParameterDomainErrors ==
    /\ []((c_call.op \in CurveParamOps /\ OutOfDomain(c_call.u)) => CurveCallFailed)
    /\ []((c_call.op \in CurveListOps /\ InvalidParamList(c_call.u)) => CurveCallFailed)
    /\ []((s_call.op \in SurfaceParamOps
              /\ (OutOfDomain(s_call.u) \/ OutOfDomain(s_call.v))) => SurfaceCallFailed)
    /\ []((s_call.op \in SurfaceListOps /\ InvalidPairList(s_call.u)) => SurfaceCallFailed)
    /\ [][/\ (c_call'.op \in CurveParamOps \cup CurveListOps /\ c_call'.raised)
               => curve' = curve
          /\ (s_call'.op \in SurfaceParamOps \cup SurfaceListOps /\ s_call'.raised)
               => surf' = surf]_vars

\* tangents was given a list whose second parameter lies outside [0, 1],
\* after a first one that evaluates, and returned nothing
C21_Witness ==
    /\ c_call.op = "tangents" /\ c_call.u.is_list /\ Len(c_call.u.items) = 2
    /\ ~OutOfDomain(c_call.u.items[1]) /\ OutOfDomain(c_call.u.items[2])
    /\ tangent(curve, c_call.u.items[1], FALSE).ok
    /\ c_call.raised /\ c_call.ret = None

----------------------------------------------------------------------------
(* Points of curves and surfaces as combinations of control points: one     *)
(* call of curvept or surfpt, on the curves and surfaces of the evaluation  *)
(* inputs and on some whose control points are all equal or form a square.  *)

\* n copies of one point
ConstantPoints(n, dim) == [i \in 1..n |-> InputPoint(2, dim)]

\* the corners of the unit square, row by row, and a square whose corners
\* lie at different heights
UnitSquare == <<<<0, 0, 0>>, <<0, 1, 0>>, <<1, 0, 0>>, <<1, 1, 0>>>>

TiltedSquare == <<<<0, 0, 0>>, <<0, 1, 1>>, <<1, 0, 2>>, <<1, 1, 5>>>>

UnityCtrlptsInputs ==
    EvalCtrlptsInputs \cup {ConstantPoints(3, 3), ConstantPoints(4, 2)}

UnityCurves ==
    {c \in {EvalCurve(dim, p, pts, kv) :
               dim \in {2, 3}, p \in 1..MaxDegree, pts \in UnityCtrlptsInputs,
               kv \in EvalKnotInputs} :
        check_variables(c)}

UnityGridInputs ==
    GridInputs \cup {<<UnitSquare, 2, 2>>, <<TiltedSquare, 2, 2>>,
                     <<ConstantPoints(9, 3), 3, 3>>}

UnitySurfaces ==
    {s \in {ConfiguredSurface(du, dv, grid, ku, kv, Rat(1, 2)) :
               du \in 1..MaxDegree, dv \in 1..MaxDegree, grid \in UnityGridInputs,
               ku \in KnotInputs, kv \in KnotInputs} :
        /\ Surface_check_variables(s)
        /\ Len(s.control_points) = s.control_points_size_u * s.control_points_size_v}

UnityInit ==
    /\ c_call = NoCall
    /\ s_call = NoCall
    /\ \/ /\ curve \in UnityCurves
          /\ surf = NewSurface
          /\ calls = MaxCalls - 1
       \/ /\ surf \in UnitySurfaces
          /\ curve = NewCurve(3)
          /\ calls = MaxSurfaceCalls - 1

UnityNext ==
    \/ CurveCurvept
    \/ DomainSurfpt

UnitySpec == UnityInit /\ [][UnityNext]_vars

\* the sum of basis[i] * points[i], coordinate by coordinate
Combination(basis, points, dim) ==
    [x \in 1..dim |-> RSum([i \in 1..Len(basis) |-> RMul(basis[i], points[i][x])])]

\* the sum of basis_u[k] * basis_v[l] * window[k][l], coordinate by coordinate
Combination2(basis_u, basis_v, window, dim) ==
    [x \in 1..dim |->
        RSum([k \in 1..Len(basis_u) |->
                RSum([l \in 1..Len(basis_v) |->
                        RMul(RMul(basis_u[k], basis_v[l]), window[k][l][x])])])]

\* the degree + 1 basis values at the span found for u sum to 1 and the
\* span's control points span - degree .. span exist
UnityAt(degree, kv, num_ctrlpts, u) ==
    LET Sums(span) ==
            /\ span - degree >= 0 /\ span <= num_ctrlpts - 1
            /\ BasisOK(degree, kv, span, u)
            /\ Len(basis_functions(degree, kv, span, u)) = degree + 1
            /\ RSum(basis_functions(degree, kv, span, u)) = One
        Found(sp) == sp.ok /\ Sums(sp.val)
    IN  Found(find_span(degree, kv, num_ctrlpts, u))

\* the point returned is the combination of the control points
\* span - degree .. span with the basis values, and P when they all equal P
CurveIsCombination(c, u, ret) ==
    LET p == c.degree
        P == c.control_points
        span == find_span(p, c.knot_vector, Len(P), u).val
        window == [i \in 1..(p + 1) |-> P[span - p + i]]
    IN  /\ ret = Combination(basis_functions(p, c.knot_vector, span, u), window,
                             c.dimension)
        /\ (\A i \in 1..Len(P) : P[i] = P[1]) => ret = P[1]

SurfaceIsCombination(s, u, v, ret) ==
    LET p == s.degree_u
        q == s.degree_v
        grid == s.control_points2D
        span_u == find_span(p, s.knot_vector_u, s.control_points_size_u, u).val
        span_v == find_span(q, s.knot_vector_v, s.control_points_size_v, v).val
        window == [k \in 1..(p + 1) |->
                      [l \in 1..(q + 1) |-> grid[span_u - p + k][span_v - q + l]]]
    IN  /\ ret = Combination2(basis_functions(p, s.knot_vector_u, span_u, u),
                              basis_functions(q, s.knot_vector_v, span_v, v),
                              window, s.dimension)
        /\ (\A i \in 1..Len(grid) : \A j \in 1..Len(grid[i]) : grid[i][j] = grid[1][1])
              => ret = grid[1][1]

\* degree (1, 1), a 2 x 2 grid and the knots [0, 0, 1, 1] in both directions
Bilinear(s) ==
    /\ s.degree_u = 1 /\ s.degree_v = 1
    /\ s.control_points_size_u = 2 /\ s.control_points_size_v = 2
    /\ s.knot_vector_u = <<Zero, Zero, One, One>>
    /\ s.knot_vector_v = <<Zero, Zero, One, One>>

\* the mean of the four corners
Centroid(s) ==
    [x \in 1..s.dimension |->
        RDiv(RSum([i \in 1..4 |-> s.control_points[i][x]]), Float(4))]

----------------------------------------------------------------------------
(* The life of one instance: a new Curve or a new Surface, its setters in   *)
(* any order and, in between, its evaluators and insert_knot.               *)

\* the caller works on one instance: on the curve as long as the surface
\* was never called, and the other way round
OnCurve == s_call.op = "init"

OnSurface == c_call.op = "init"

\* the parameter handed to the evaluators
LifeParam == Rat(1, 2)

LifeSetDegree == OnCurve /\ CurveSetDegree

LifeSetCtrlpts == OnCurve /\ CurveSetCtrlpts

LifeSetKnotvector == OnCurve /\ CurveSetKnotvector

LifeEvaluate == OnCurve /\ CurveEvaluate

LifeGetCurvepts == OnCurve /\ CurveGetCurvepts

LifeInsertKnot == OnCurve /\ CurveInsertKnot

LifeCurvept ==
    OnCurve /\ CurveReturn("curvept", LifeParam, 0, curvept(curve, LifeParam))

LifeDerivatives ==
    /\ OnCurve
    /\ \E order \in 1..2 :
          CurveReturn("derivatives", LifeParam, order, derivatives(curve, LifeParam, order))

LifeDerivatives2 ==
    /\ OnCurve
    /\ \E order \in 1..2 :
          CurveReturn("derivatives2", LifeParam, order,
                      derivatives2(curve, LifeParam, order))

LifeTangent ==
    OnCurve /\ CurveReturn("tangent", LifeParam, 0, tangent(curve, LifeParam, FALSE))

LifeNormal ==
    OnCurve /\ CurveReturn("normal", LifeParam, 0, normal(curve, LifeParam, FALSE))

LifeSetDegreeU == OnSurface /\ SurfaceSetDegreeU

LifeSetDegreeV == OnSurface /\ SurfaceSetDegreeV

LifeSetGrid == OnSurface /\ SurfaceSetCtrlpts

LifeSetKnotvectorU == OnSurface /\ SurfaceSetKnotvectorU

LifeSetKnotvectorV == OnSurface /\ SurfaceSetKnotvectorV

LifeSurfaceEvaluate == OnSurface /\ SurfaceEvaluate

LifeGetSurfpts == OnSurface /\ SurfaceGetSurfpts

LifeSurfaceInsertKnot == OnSurface /\ SurfaceInsertKnotOnce

LifeSurfpt ==
    OnSurface /\ SurfaceValue("surfpt", LifeParam, LifeParam, 0,
                              surfpt(surf, LifeParam, LifeParam))

LifeSurfaceDerivatives ==
    OnSurface /\ SurfaceValue("derivatives", LifeParam, LifeParam, 1,
                              Surface_derivatives(surf, LifeParam, LifeParam, 1))

LifeSurfaceTangent ==
    OnSurface /\ SurfaceValue("tangent", LifeParam, LifeParam, 0,
                              Surface_tangent(surf, LifeParam, LifeParam, FALSE))

LifeSurfaceNormal ==
    OnSurface /\ SurfaceValue("normal", LifeParam, LifeParam, 0,
                              Surface_normal(surf, LifeParam, LifeParam, FALSE))

\* Curve() and Surface()
LifeInit ==
    /\ curve = NewCurve(3)
    /\ c_call = NoCall
    /\ surf = NewSurface
    /\ s_call = NoCall
    /\ calls = 0

LifeNext ==
    \/ LifeSetDegree
    \/ LifeSetCtrlpts
    \/ LifeSetKnotvector
    \/ LifeEvaluate
    \/ LifeGetCurvepts
    \/ LifeInsertKnot
    \/ LifeCurvept
    \/ LifeDerivatives
    \/ LifeDerivatives2
    \/ LifeTangent
    \/ LifeNormal
    \/ LifeSetDegreeU
    \/ LifeSetDegreeV
    \/ LifeSetGrid
    \/ LifeSetKnotvectorU
    \/ LifeSetKnotvectorV
    \/ LifeSurfaceEvaluate
    \/ LifeGetSurfpts
    \/ LifeSurfaceInsertKnot
    \/ LifeSurfpt
    \/ LifeSurfaceDerivatives
    \/ LifeSurfaceTangent
    \/ LifeSurfaceNormal

LifeSpec == LifeInit /\ [][LifeNext]_vars

\* what the instance holds of its three parts
DegreeSet(degree) == degree # 0

CurveAllSet(c) ==
    DegreeSet(c.degree) /\ c.control_points # <<>> /\ c.knot_vector # <<>>

SurfaceAllSet(s) ==
    /\ DegreeSet(s.degree_u) /\ DegreeSet(s.degree_v)
    /\ s.control_points # <<>>
    /\ s.knot_vector_u # <<>> /\ s.knot_vector_v # <<>>

CurveEvaluators ==
    {"curvept", "evaluate", "curvepts", "derivatives", "derivatives2", "tangent",
     "normal", "insert_knot"}

SurfaceEvaluators ==
    {"surfpt", "evaluate", "surfpts", "derivatives", "tangent", "normal", "insert_knot"}

\* the call raised, returned nothing and changed nothing
CurveCallRefused == c_call'.raised /\ c_call'.ret = None /\ curve' = curve

SurfaceCallRefused == s_call'.raised /\ s_call'.ret = None /\ surf' = surf

\* a part of the curve is set by a successful assignment to it (or rewritten
\* by an insertion that was made), by nothing else
CurveSetBySetters ==
    /\ (curve'.degree # curve.degree /\ DegreeSet(curve'.degree))
          => (c_call'.op \in {"degree", "order"} /\ ~c_call'.raised)
    /\ (curve'.control_points # curve.control_points /\ curve'.control_points # <<>>)
          => \/ c_call'.op = "ctrlpts" /\ ~c_call'.raised
             \/ Applied(c_call')
    /\ (curve'.knot_vector # curve.knot_vector /\ curve'.knot_vector # <<>>)
          => \/ c_call'.op = "knotvector" /\ ~c_call'.raised
             \/ Applied(c_call')

SurfaceSetBySetters ==
    /\ (surf'.degree_u # surf.degree_u /\ DegreeSet(surf'.degree_u))
          => (s_call'.op = "degree_u" /\ ~s_call'.raised)
    /\ (surf'.degree_v # surf.degree_v /\ DegreeSet(surf'.degree_v))
          => (s_call'.op = "degree_v" /\ ~s_call'.raised)
    /\ (surf'.control_points # surf.control_points /\ surf'.control_points # <<>>)
          => \/ s_call'.op = "set_ctrlpts" /\ ~s_call'.raised
             \/ Applied(s_call')
    /\ (surf'.knot_vector_u # surf.knot_vector_u /\ surf'.knot_vector_u # <<>>)
          => \/ s_call'.op = "knotvector_u" /\ ~s_call'.raised
             \/ Applied(s_call')
    /\ (surf'.knot_vector_v # surf.knot_vector_v /\ surf'.knot_vector_v # <<>>)
          => \/ s_call'.op = "knotvector_v" /\ ~s_call'.raised
             \/ Applied(s_call')

\* the checks the calls make on what the instance holds
LifecycleGuards ==
    /\ (/\ c_call'.op = "knotvector" /\ calls' # calls /\ OnCurve
        /\ ~(DegreeSet(curve.degree) /\ curve.control_points # <<>>))
          => CurveCallRefused
    /\ (/\ c_call'.op \in CurveEvaluators /\ calls' # calls /\ OnCurve
        /\ ~CurveAllSet(curve))
          => CurveCallRefused
    /\ (curve'.curve_points # curve.curve_points /\ curve'.curve_points # <<>>)
          => CurveAllSet(curve)
    /\ (/\ s_call'.op = "knotvector_u" /\ calls' # calls /\ OnSurface
        /\ ~(DegreeSet(surf.degree_u) /\ surf.control_points # <<>>))
          => SurfaceCallRefused
    /\ (/\ s_call'.op = "knotvector_v" /\ calls' # calls /\ OnSurface
        /\ ~(DegreeSet(surf.degree_v) /\ surf.control_points # <<>>))
          => SurfaceCallRefused
    /\ (/\ s_call'.op \in SurfaceEvaluators /\ calls' # calls /\ OnSurface
        /\ ~SurfaceAllSet(surf))
          => SurfaceCallRefused
    /\ (surf'.surface_points # surf.surface_points /\ surf'.surface_points # <<>>)
          => SurfaceAllSet(surf)

\* LifecycleGuards alone: every step of every behaviour makes these checks
LifecycleGuardsHold == [][LifecycleGuards]_vars

\* C23: in every sequence of operations on a new Curve or Surface, the knot
\* vector setter fails and changes nothing unless a degree and control
\* points were set earlier, and curvept, evaluate, the read of curvepts or
\* surfpts, derivatives, tangent, normal and insert_knot fail with an error
\* and change nothing unless degree, control points and knot vector(s) were
\* all set; no evaluated point is produced before.  A part counts as set
\* when a successful assignment stored it.
C23_LifecycleOrdering ==
    [][LifecycleGuards /\ CurveSetBySetters /\ SurfaceSetBySetters]_vars


----------------------------------------------------------------------------
(* Degree 0: a new curve whose degree is assigned first (0 or 1), then its  *)
(* control points and its knot vector, and curvept in between.              *)

\* lists of one and more 3D points
ZeroCtrlptsInputs == {InputPoints(n, 3) : n \in 1..MaxCtrlpts}

\* the knot vectors 1, 2, ..., n + 1 for degree 0 and n control points, and
\* one for degree 1 and two control points
ZeroKnotInputs ==
    {ClampedUniform(0, n, 1) : n \in 1..MaxCtrlpts} \cup {ClampedUniform(1, 2, 1)}

\* the first statement of the caller: curve.degree = value
ZeroSetDegree ==
    /\ calls = 0
    /\ \E value \in 0..1 : CurveDone("degree", value, 0, set_degree(curve, value), 0)

ZeroSetCtrlpts ==
    /\ calls > 0
    /\ \E value \in ZeroCtrlptsInputs :
          CurveDone("ctrlpts", None, 0, set_ctrlpts(curve, value), 0)

ZeroSetKnotvector ==
    /\ calls > 0
    /\ \E value \in ZeroKnotInputs :
          CurveDone("knotvector", value, 0, set_knotvector(curve, value), 0)

ZeroCurvept ==
    /\ calls > 0
    /\ \E u \in ParamInputs \cup {Zero} : CurveReturn("curvept", u, 0, curvept(curve, u))

ZeroNext == ZeroSetDegree \/ ZeroSetCtrlpts \/ ZeroSetKnotvector \/ ZeroCurvept

ZeroSpec == LifeInit /\ [][ZeroNext]_vars

\* the degree was set to 0 and at least one control point is stored
DegreeZeroWithPoints ==
    calls > 0 /\ curve.degree = 0 /\ curve.control_points # <<>>

\* value is a valid knot vector for degree 0 and the stored control points:
\* n_ctrlpts + 1 non-decreasing values, not all equal
ZeroKnotsFit(value) ==
    /\ Len(value) = Len(curve.control_points) + 1
    /\ \A i \in 1..(Len(value) - 1) : value[i] <= value[i + 1]
    /\ value[1] < value[Len(value)]

\* C24: degree 0 is a valid configuration: once degree 0 and at least one
\* control point are set, the knot vector setter accepts a valid knot
\* vector of length n_ctrlpts + 1 (and stores it), and the curvept(u) that
\* follows, with u in [0, 1], returns a point instead of failing.
C24_DegreeZeroIsValid ==
    [][/\ (/\ DegreeZeroWithPoints
           /\ calls' # calls /\ c_call'.op = "knotvector"
           /\ ZeroKnotsFit(c_call'.u))
             => (~c_call'.raised /\ curve'.knot_vector # <<>>)
       /\ (/\ DegreeZeroWithPoints
           /\ c_call.op = "knotvector" /\ ZeroKnotsFit(c_call.u)
           /\ calls' # calls /\ c_call'.op = "curvept" /\ check_uv(c_call'.u))
             => (~c_call'.raised /\ c_call'.ret # None)]_vars

----------------------------------------------------------------------------
(* The insertion passes: a configured curve or a configured surface on      *)
(* which insert_knot is called.                                             *)

AliasInit ==
    \/ /\ curve \in EvalCurves
       /\ c_call = NoCall
       /\ surf = NewSurface
       /\ s_call = NoCall
       /\ calls = MaxCalls - 2
    \/ /\ curve = NewCurve(3)
       /\ c_call = NoCall
       /\ surf \in ConfiguredSurfaces({Rat(1, 2)})
       /\ s_call = NoCall
       /\ calls = MaxSurfaceCalls - 1

AliasSurfaceInsertKnot == surf # NewSurface /\ SurfaceInsertKnot

AliasNext == CurveInsertKnot \/ AliasSurfaceInsertKnot

AliasSpec == AliasInit /\ [][AliasNext]_vars

\* R[i] at the end of pass j, for the control points P and the span k
PassValue(P, U, p, u, s, k, j, i) ==
    PyAt(PassesR(LoadR(P, p, s, k), U, p, u, s, k, j), i)

\* what Q holds once every assignment to it was made: for each index the
\* object bound to it
InsertRefs(np, p, r, s, k) ==
    LET refs == SavedRefs(p, r, s, k, np) \o PassRefs(p, r, s, k)
                    \o RemainingRefs(s, k, k - p + r)
    IN  AssignRefs([i \in 1..(np + r) |-> Ref(i - 1, "N", 0)], refs, Len(refs))

\* the points Q (the result of inserting u r times into P) has at the
\* indices written by the passes are the ones the passes wrote
PassesKeepValues(P, Q, U, p, u, r) ==
    LET s == find_multiplicity(u, U)
        k == find_span(p, U, Len(P), u).val
    IN  \A j \in 1..r :
           /\ PyAt(Q, k - p + j) = PassValue(P, U, p, u, s, k, j, 0)
           /\ PyAt(Q, k + r - j - s) = PassValue(P, U, p, u, s, k, j, p - j - s)

\* no two indices of the result are bound to one object
NoSharedPoint(np, U, p, u, r) ==
    LET Q == InsertRefs(np, p, r, find_multiplicity(u, U),
                        find_span(p, U, np, u).val)
    IN  \A a \in 1..Len(Q) : \A b \in 1..Len(Q) :
           (a # b /\ Q[a].src # "N") => ~(Q[a].src = Q[b].src /\ Q[a].idx = Q[b].idx)

\* a Curve.insert_knot(u, r) with r >= 2 that was made
CurveInsertedTwice ==
    calls' # calls /\ Applied(c_call') /\ c_call'.r >= 2

\* a Surface.insert_knot(u, None, r) with r >= 2 that was made
SurfaceInsertedTwice ==
    /\ calls' # calls /\ Applied(s_call') /\ s_call'.r >= 2
    /\ Truthy(s_call'.u) /\ ~Truthy(s_call'.v)

\* C25: in Curve.insert_knot and Surface.insert_knot with r >= 2, the
\* control point written by insertion pass j at Q[k - degree + j], and its
\* mirror at Q[k + r - j - s], still has in the result the value it had at
\* the end of pass j (no later pass modifies it), and no two distinct
\* indices of the resulting control point array refer to the same point
\* object.
C25_NoAliasingInPasses ==
    [][/\ CurveInsertedTwice
             => /\ PassesKeepValues(curve.control_points, curve'.control_points,
                                    curve.knot_vector, curve.degree,
                                    c_call'.u, c_call'.r)
                /\ NoSharedPoint(Len(curve.control_points), curve.knot_vector,
                                 curve.degree, c_call'.u, c_call'.r)
       /\ SurfaceInsertedTwice
             => /\ \A row \in 0..(surf.control_points_size_v - 1) :
                      PassesKeepValues(GridColumn(surf.control_points2D, row),
                                       GridColumn(surf'.control_points2D, row),
                                       surf.knot_vector_u, surf.degree_u,
                                       s_call'.u, s_call'.r)
                /\ NoSharedPoint(surf.control_points_size_u, surf.knot_vector_u,
                                 surf.degree_u, s_call'.u, s_call'.r)]_vars

\* the parts of C25, each on its own
CurvePassesKeepValues ==
    [][CurveInsertedTwice
          => PassesKeepValues(curve.control_points, curve'.control_points,
                              curve.knot_vector, curve.degree, c_call'.u, c_call'.r)]_vars

CurvePassesShareNoPoint ==
    [][CurveInsertedTwice
          => NoSharedPoint(Len(curve.control_points), curve.knot_vector,
                           curve.degree, c_call'.u, c_call'.r)]_vars

SurfacePassesKeepValues ==
    [][SurfaceInsertedTwice
          => \A row \in 0..(surf.control_points_size_v - 1) :
                PassesKeepValues(GridColumn(surf.control_points2D, row),
                                 GridColumn(surf'.control_points2D, row),
                                 surf.knot_vector_u, surf.degree_u,
                                 s_call'.u, s_call'.r)]_vars

SurfacePassesShareNoPoint ==
    [][SurfaceInsertedTwice
          => NoSharedPoint(surf.control_points_size_u, surf.knot_vector_u,
                           surf.degree_u, s_call'.u, s_call'.r)]_vars

----------------------------------------------------------------------------
(* Sequences of insertions: a configured curve on which insert_knot is      *)
(* called three times.                                                      *)

InsertInit ==
    /\ curve \in EvalCurves
    /\ c_call = NoCall
    /\ surf = NewSurface
    /\ s_call = NoCall
    /\ calls = MaxCalls - 3

InsertNext == CurveInsertKnot

InsertSpec == InsertInit /\ [][InsertNext]_vars

\* Q is P with the points outside the span's window kept: those up to
\* k - p where they were, those from k - s on moved up by r
FrameKept(P, Q, U, p, u, r) ==
    LET s == find_multiplicity(u, U)
        k == find_span(p, U, Len(P), u).val
    IN  /\ \A i \in 0..(k - p) : PyAt(Q, i) = PyAt(P, i)
        /\ \A i \in (k - s)..(Len(P) - 1) : PyAt(Q, i + r) = PyAt(P, i)

\* C26: a successful Curve.insert_knot(u, r) with span k and multiplicity s
\* on the n control points P leaves control points Q with Q[i] = P[i] for
\* 0 <= i <= k - degree and Q[i + r] = P[i] for k - s <= i < n, all n + r
\* entries of Q are assigned, degree and delta are unchanged, and with r = 0
\* the knot vector and the control points are unchanged.
C26_InsertionFrame ==
    [][(calls' # calls /\ Applied(c_call'))
          => /\ FrameKept(curve.control_points, curve'.control_points,
                          curve.knot_vector, curve.degree, c_call'.u, c_call'.r)
             /\ Len(curve'.control_points) = Len(curve.control_points) + c_call'.r
             /\ \A i \in 1..Len(curve'.control_points) :
                   curve'.control_points[i] # None
             /\ curve'.degree = curve.degree
             /\ curve'.delta = curve.delta
             /\ (c_call'.r = 0)
                   => /\ curve'.knot_vector = curve.knot_vector
                      /\ curve'.control_points = curve.control_points]_vars

\* an insertion of two knots was made
C26_Witness ==
    /\ Applied(c_call) /\ c_call.r = 2
    /\ Len(curve.control_points) > curve.degree + 2

----------------------------------------------------------------------------
(* Sequences of insertions on a valid curve                                 *)

\* the multiplicity of every knot strictly between 0 and 1 is at most the
\* degree
InteriorBounded(c) ==
    \A i \in 1..Len(c.knot_vector) :
       (RLt(Zero, c.knot_vector[i]) /\ RLt(c.knot_vector[i], One))
          => find_multiplicity(c.knot_vector[i], c.knot_vector) <= c.degree

\* a configured curve whose knot vector has n + p + 1 non-decreasing knots
\* from 0 to 1 and bounded interior multiplicities
BoundedInit ==
    /\ InsertInit
    /\ Len(curve.knot_vector) = Len(curve.control_points) + curve.degree + 1
    /\ NonDecreasing(curve.knot_vector)
    /\ curve.knot_vector[1] = Zero
    /\ curve.knot_vector[Len(curve.knot_vector)] = One
    /\ InteriorBounded(curve)

BoundedSpec == BoundedInit /\ [][InsertNext]_vars

\* C27: starting from a valid curve in which every interior knot has a
\* multiplicity of at most the degree, after any sequence of
\* Curve.insert_knot calls every interior knot value still has multiplicity
\* <= degree; each successful insert_knot(u, r) raises the multiplicity of
\* u by exactly r; and once the multiplicity of u has reached the degree,
\* every further insert_knot(u, r) with r >= 1 is rejected (a warning, no
\* change).
C27_MultiplicityBound ==
    /\ []InteriorBounded(curve)
    /\ [][/\ (calls' # calls /\ Applied(c_call'))
                => find_multiplicity(c_call'.u, curve'.knot_vector)
                      = find_multiplicity(c_call'.u, curve.knot_vector) + c_call'.r
          /\ (/\ calls' # calls /\ IsInsert(c_call') /\ c_call'.r >= 1
              /\ find_multiplicity(c_call'.u, curve.knot_vector) >= curve.degree)
                => (Rejected(c_call') /\ curve' = curve)]_vars

\* insertions brought an interior knot of a curve of degree 2 to
\* multiplicity 2, and the next insertion there was rejected
C27_Witness ==
    /\ Rejected(c_call) /\ c_call.r >= 1
    /\ RLt(Zero, c_call.u) /\ RLt(c_call.u, One)
    /\ curve.degree = 2
    /\ find_multiplicity(c_call.u, curve.knot_vector) = 2
    /\ Len(curve.control_points) >= 5

----------------------------------------------------------------------------
(* Two transposes in a row *)

\* the surface after the next call of transpose
Transposed(s) == transpose(s).s

\* a transpose was made on a surface that satisfies the data model, with
\* its flattened list in step with its grid
TransposedValid ==
    /\ calls' # calls /\ s_call'.op = "transpose" /\ ~s_call'.raised
    /\ ValidSurface(surf) /\ FlattenedIsRowMajor(surf)

\* what a second transpose restores: the degrees, the knot vectors, the
\* sizes and the grid
SecondTransposeRestoresGrid ==
    [][TransposedValid
          => /\ ~transpose(surf').raised
             /\ Transposed(surf').degree_u = surf.degree_u
             /\ Transposed(surf').degree_v = surf.degree_v
             /\ Transposed(surf').knot_vector_u = surf.knot_vector_u
             /\ Transposed(surf').knot_vector_v = surf.knot_vector_v
             /\ Transposed(surf').control_points_size_u = surf.control_points_size_u
             /\ Transposed(surf').control_points_size_v = surf.control_points_size_v
             /\ Transposed(surf').control_points2D = surf.control_points2D]_vars

\* C28: transpose is an involution: for every configured surface, a second
\* call of Surface.transpose after a first one restores degree_u, degree_v,
\* knot_vector_u, knot_vector_v, size_u, size_v, the control point grid and
\* the flattened control point list to their values before the first call.
C28_TransposeIsInvolution ==
    [][TransposedValid
          => /\ ~transpose(surf').raised
             /\ Transposed(surf').degree_u = surf.degree_u
             /\ Transposed(surf').degree_v = surf.degree_v
             /\ Transposed(surf').knot_vector_u = surf.knot_vector_u
             /\ Transposed(surf').knot_vector_v = surf.knot_vector_v
             /\ Transposed(surf').control_points_size_u = surf.control_points_size_u
             /\ Transposed(surf').control_points_size_v = surf.control_points_size_v
             /\ Transposed(surf').control_points2D = surf.control_points2D
             /\ Transposed(surf').control_points = surf.control_points]_vars

----------------------------------------------------------------------------
(* Degrees and control points assigned in any order on a new Curve or a     *)
(* new Surface.                                                             *)

CountSetDegree == OnCurve /\ CurveSetDegree

CountSetOrder == OnCurve /\ CurveSetOrder

CountSetCtrlpts == OnCurve /\ CurveSetCtrlpts

CountSetDegreeU == OnSurface /\ SurfaceSetDegreeU

CountSetDegreeV == OnSurface /\ SurfaceSetDegreeV

CountSetGrid == OnSurface /\ SurfaceSetCtrlpts

CountNext ==
    \/ CountSetDegree
    \/ CountSetOrder
    \/ CountSetCtrlpts
    \/ CountSetDegreeU
    \/ CountSetDegreeV
    \/ CountSetGrid

CountSpec == LifeInit /\ [][CountNext]_vars

\* the stored control points are enough for the degree
CurveCountFits(c) ==
    c.control_points # <<>> => Len(c.control_points) >= c.degree + 1

SurfaceCountFits(s) ==
    s.control_points # <<>>
       => /\ s.control_points_size_u >= s.degree_u + 1
          /\ s.control_points_size_v >= s.degree_v + 1

\* a degree assignment on an instance whose stored control points were
\* enough for its degree leaves them enough for the new degree
DegreeRaiseKeepsCount ==
    [][/\ (c_call'.op \in {"degree", "order"} /\ CurveCountFits(curve))
             => CurveCountFits(curve')
       /\ (s_call'.op \in {"degree_u", "degree_v"} /\ SurfaceCountFits(surf))
             => SurfaceCountFits(surf')]_vars

\* C29: after any sequence of degree / order and ctrlpts assignments on a
\* Curve, and of degree_u / degree_v and set_ctrlpts calls on a Surface,
\* whenever control points are stored their number in each direction is at
\* least the degree of that direction plus 1; in particular raising the
\* degree after the control points were set cannot leave fewer than
\* degree + 1 control points.
C29_CtrlptsCountInvariant == CurveCountFits(curve) /\ SurfaceCountFits(surf)

----------------------------------------------------------------------------
(* The sizes of the grid: a surface with its degrees set, on which          *)
(* set_ctrlpts, the knot vector setters, transpose and insert_knot are      *)
(* called.                                                                  *)

\* set_ctrlpts's (ctrlpts, size_u, size_v), with a list that is longer than
\* size_u * size_v
GridSizeInputs == GridInputs \cup {<<InputPoints(6, 3), 2, 2>>}

GridSetCtrlpts ==
    \E value \in GridSizeInputs :
        SurfaceDone("set_ctrlpts", None, None, 0,
                    Surface_set_ctrlpts(surf, value[1], value[2], value[3]), 0)

\* Surface() with degree_u and degree_v assigned; four more calls are made
GridInit ==
    /\ surf \in {set_degree_v(set_degree_u(NewSurface, du).s, dv).s :
                    du \in 1..MaxDegree, dv \in 1..MaxDegree}
    /\ s_call = NoCall
    /\ curve = NewCurve(3)
    /\ c_call = NoCall
    /\ calls = MaxSurfaceCalls - 4

GridNext ==
    \/ GridSetCtrlpts
    \/ SurfaceSetKnotvectorU
    \/ SurfaceSetKnotvectorV
    \/ SurfaceTranspose
    \/ SurfaceInsertKnot

GridSpec == GridInit /\ [][GridNext]_vars

\* size_u * size_v flattened points and a grid of size_u rows of size_v
\* points
GridSizesAgree(s) ==
    /\ Len(s.control_points) = s.control_points_size_u * s.control_points_size_v
    /\ Len(s.control_points2D) = s.control_points_size_u
    /\ \A i \in 1..Len(s.control_points2D) :
          Len(s.control_points2D[i]) = s.control_points_size_v

\* a set_ctrlpts call that returns leaves the sizes in agreement
SetCtrlptsSizesAgree ==
    [][(s_call'.op = "set_ctrlpts" /\ ~s_call'.raised) => GridSizesAgree(surf')]_vars

\* a set_ctrlpts call that raises leaves the sizes in agreement
RaisingSetCtrlptsSizesAgree ==
    [][(s_call'.op = "set_ctrlpts" /\ s_call'.raised) => GridSizesAgree(surf')]_vars

\* insert_knot and transpose keep the sizes in agreement
LaterCallsKeepSizes ==
    [][(s_call'.op \in {"insert_knot", "transpose"} /\ GridSizesAgree(surf))
          => GridSizesAgree(surf')]_vars

\* C30: after any successful Surface.set_ctrlpts(ctrlpts, size_u, size_v)
\* and any later insert_knot or transpose, the number of flattened control
\* points equals size_u * size_v and the grid has exactly size_u rows of
\* size_v points; and a set_ctrlpts call whose list length differs from
\* size_u * size_v does not leave a surface whose flattened list and grid
\* disagree in size.  As no call may leave a disagreement, the sizes agree
\* in every state.
C30_GridSizeInvariant == GridSizesAgree(surf)
============================================================================
